---- MODULE Spec2Model ----
(***************************************************************************)
(* xedgesim coordination engine: the network models (sim/network), the     *)
(* conservative lockstep coordinator (sim/harness/coordinator.py) and the  *)
(* launcher (sim/harness/launcher.py).                                     *)
(***************************************************************************)
EXTENDS Integers, Sequences, FiniteSets, TLC

(***************************************************************************)
(* Bounds of the model                                                     *)
(***************************************************************************)
MaxDuration == 3
MaxQuantum == 2
MaxOutbox == 2
MaxEvents == 2
MaxRouted == 3
MaxTime == 1
MaxLatency == 2
MaxSeed == 1
MaxShutdownCalls == 2
MaxAdapterCalls == 4

(***************************************************************************)
(* Values                                                                  *)
(***************************************************************************)
\* Python's None for a string-valued field (Event.dst) and for an
\* Optional[int] field (NetworkMetrics.min_latency_us / max_latency_us).
None == "None"
NoneInt == -1
\* payload None
NonePayload == 0

\* random.Random.random() returns u in [0, 1); the model keeps u and the
\* loss rates in units of 1/LossScale, so a loss_rate of LossScale is 1.0.
LossScale == 2
LossRates == 0..LossScale

\* The registered node ids, in registration order, and an id no node has.
NodeOrder == <<"n1", "n2">>
NodeIds == {NodeOrder[i] : i \in 1..Len(NodeOrder)}
UnknownNode == "zz"
DstValues == NodeIds \cup {None, UnknownNode}

Range(s) == {s[i] : i \in 1..Len(s)}

Min2(a, b) == IF a <= b THEN a ELSE b

(***************************************************************************)
(* Event (coordinator.py)                                                  *)
(***************************************************************************)
\* The fields of the Event dataclass, in declaration order.
EventFields == {"time_us", "type", "src", "dst", "payload", "size_bytes"}
EventRequired == {"time_us", "type", "src"}

\* The dataclass-generated Event.__init__ called with keyword arguments kw
\* (a record): a keyword that is not a field, or a missing required field,
\* raises TypeError; absent optional fields take their defaults.
EventInit(kw) ==
    IF ~(DOMAIN kw \subseteq EventFields) \/ ~(EventRequired \subseteq DOMAIN kw)
    THEN [raised |-> "TypeError", event |-> [time_us |-> 0, type |-> "", src |-> "",
                                             dst |-> None, payload |-> NonePayload,
                                             size_bytes |-> 0]]
    ELSE [raised |-> "none",
          event |-> [time_us |-> kw.time_us, type |-> kw.type, src |-> kw.src,
                     dst |-> IF "dst" \in DOMAIN kw THEN kw.dst ELSE None,
                     payload |-> IF "payload" \in DOMAIN kw THEN kw.payload ELSE NonePayload,
                     size_bytes |-> IF "size_bytes" \in DOMAIN kw THEN kw.size_bytes ELSE 0]]

\* An event as a node produces it.
MkEvent(t, src, dst, id) ==
    [time_us |-> t, type |-> "msg", src |-> src, dst |-> dst, payload |-> id, size_bytes |-> 0]

(***************************************************************************)
(* NetworkMetrics (metrics.py)                                             *)
(***************************************************************************)
NetworkMetrics ==
    [packets_sent |-> 0, packets_delivered |-> 0, packets_dropped |-> 0,
     total_latency_us |-> 0, min_latency_us |-> NoneInt, max_latency_us |-> NoneInt]

record_sent(m) == [m EXCEPT !.packets_sent = @ + 1]

record_dropped(m) == [m EXCEPT !.packets_dropped = @ + 1]

record_delivered(m, latency_us) ==
    [m EXCEPT !.packets_delivered = @ + 1,
              !.total_latency_us = @ + latency_us,
              !.min_latency_us = IF @ = NoneInt \/ latency_us < @ THEN latency_us ELSE @,
              !.max_latency_us = IF @ = NoneInt \/ latency_us > @ THEN latency_us ELSE @]

(***************************************************************************)
(* heapq on a list of (delivery_time_us, event) tuples                     *)
(***************************************************************************)
\* Python's a < b for two (delivery_time_us, Event) tuples: the first
\* elements that differ decide; two Events that differ are compared with <,
\* which the Event dataclass (no order=True) does not define: TypeError.
TupleLess(a, b) ==
    IF a.key # b.key THEN (IF a.key < b.key THEN "true" ELSE "false")
    ELSE IF a.event = b.event THEN "false"
    ELSE "TypeError"

\* heapq._siftdown(heap, 0, pos) with newitem being moved up from pos; the
\* result is [heap, raised].
RECURSIVE SiftDown(_, _, _)
SiftDown(heap, pos, newitem) ==
    IF pos <= 1 THEN [heap |-> [heap EXCEPT ![pos] = newitem], raised |-> "none"]
    ELSE LET parentpos == pos \div 2
             parent == heap[parentpos]
             lt == TupleLess(newitem, parent)
         IN  IF lt = "TypeError"
             THEN [heap |-> [heap EXCEPT ![pos] = newitem], raised |-> "TypeError"]
             ELSE IF lt = "true"
             THEN SiftDown([heap EXCEPT ![pos] = parent], parentpos, newitem)
             ELSE [heap |-> [heap EXCEPT ![pos] = newitem], raised |-> "none"]

\* heapq.heappush(heap, item): append, then sift towards the root.
heappush(heap, item) == SiftDown(Append(heap, item), Len(heap) + 1, item)

\* heapq._siftup(heap, 0): move the smaller child up until a leaf is hit,
\* then sift the displaced item back down from there.
RECURSIVE SiftUp(_, _, _)
SiftUp(heap, pos, newitem) ==
    LET childpos == 2 * pos
        rightpos == childpos + 1
    IN  IF childpos > Len(heap) THEN SiftDown(heap, pos, newitem)
        ELSE LET cmp == IF rightpos <= Len(heap)
                        THEN TupleLess(heap[childpos], heap[rightpos])
                        ELSE "true"
                 c == IF cmp = "false" THEN rightpos ELSE childpos
             IN  IF cmp = "TypeError"
                 THEN [heap |-> [heap EXCEPT ![pos] = newitem], raised |-> "TypeError"]
                 ELSE SiftUp([heap EXCEPT ![pos] = heap[c]], c, newitem)

\* heapq.heappop(heap): [heap, item, raised].
heappop(heap) ==
    LET lastelt == heap[Len(heap)]
        rest == SubSeq(heap, 1, Len(heap) - 1)
    IN  IF rest = <<>> THEN [heap |-> rest, item |-> lastelt, raised |-> "none"]
        ELSE LET r == SiftUp([rest EXCEPT ![1] = lastelt], 1, lastelt)
             IN  [heap |-> r.heap, item |-> heap[1], raised |-> r.raised]

(***************************************************************************)
(* NetworkConfig / NetworkLink (scenario.py)                               *)
(***************************************************************************)
NetworkLink(src, dst, latency_us, loss_rate) ==
    [src |-> src, dst |-> dst, latency_us |-> latency_us, loss_rate |-> loss_rate]

\* NetworkConfig.__post_init__ accepts a configuration.
ConfigValid(cfg) ==
    /\ cfg.model \in {"direct", "latency"}
    /\ cfg.default_latency_us >= 0
    /\ cfg.default_loss_rate \in LossRates
    /\ \A i \in 1..Len(cfg.links) : cfg.links[i].loss_rate \in LossRates

LinkChoices ==
    {<<>>} \cup {<<NetworkLink("n1", "n2", MaxLatency, r)>> : r \in LossRates}

LatencyConfigs ==
    {[model |-> "latency", default_latency_us |-> 1, default_loss_rate |-> r, links |-> ls] :
        r \in LossRates, ls \in LinkChoices}

DirectConfig == [model |-> "direct", default_latency_us |-> 0, default_loss_rate |-> 0,
                 links |-> <<>>]

NetConfigs == LatencyConfigs \cup {DirectConfig}

\* the network configurations of the runs: no network section or the direct
\* model, or the latency model with its defaults only
RunConfigs == {c \in NetConfigs : c.links = <<>>}

(***************************************************************************)
(* LatencyNetworkModel (latency_model.py)                                  *)
(***************************************************************************)
DefaultKey == <<"default", "default">>

\* self.links: the key -> (latency_us, loss_rate) dictionary; a later link
\* with the same (src, dst) replaces an earlier one.  0 when key is absent.
LinkIndex(cfg, key) ==
    LET hits == {i \in 1..Len(cfg.links) : <<cfg.links[i].src, cfg.links[i].dst>> = key}
    IN  IF hits = {} THEN 0 ELSE CHOOSE i \in hits : \A j \in hits : j <= i

StreamKeys(cfg) ==
    {<<cfg.links[i].src, cfg.links[i].dst>> : i \in 1..Len(cfg.links)} \cup {DefaultKey}

\* The seed of a stream: sha256 of "<src>_<dst>_<seed>" (or "default_<seed>")
\* truncated to 8 bytes, here a small hash of the same inputs.
SeedBits == 3
NameIndex(n) == IF n = "n1" THEN 1 ELSE IF n = "n2" THEN 2 ELSE IF n = "default" THEN 0 ELSE 3
LinkSeed(key, seed) == (seed + 3 * NameIndex(key[1]) + 5 * NameIndex(key[2])) % (2 ^ SeedBits)

\* The k-th value (k >= 1) random.Random(link_seed).random() returns, in
\* units of 1/LossScale: a function of the stream's seed and k only.
RandomAt(link_seed, k) == (link_seed \div (2 ^ ((k - 1) % SeedBits))) % LossScale

\* LatencyNetworkModel.__init__ / the state reset() restores.
LatencyInit(cfg) ==
    [event_queue |-> <<>>,
     rng_pos |-> [k \in StreamKeys(cfg) |-> 0],
     current_time_us |-> 0,
     metrics |-> NetworkMetrics]

\* the random stream route_message draws from for an event on link_key: the
\* link's own when the link is configured (li its index), else the default
SharedStream(li, link_key) == DefaultKey
StreamFor(li, link_key) == IF li # 0 THEN link_key ELSE DefaultKey

\* route_message(event) on state st: the new state, the returned list,
\* the exception raised ("none" when it returns) and whether the event
\* passed the loss draw.
LatencyRouteMessage(cfg, seed, st, event) ==
    LET m1 == record_sent(st.metrics)
        link_key == IF event.dst # None /\ event.dst # ""
                    THEN <<event.src, event.dst>> ELSE <<event.src, None>>
        li == LinkIndex(cfg, link_key)
        latency_us == IF li # 0 THEN cfg.links[li].latency_us ELSE cfg.default_latency_us
        loss_rate == IF li # 0 THEN cfg.links[li].loss_rate ELSE cfg.default_loss_rate
        rng == StreamFor(li, link_key)
        u == RandomAt(LinkSeed(rng, seed), st.rng_pos[rng] + 1)
        pos1 == [st.rng_pos EXCEPT ![rng] = @ + 1]
        delivery_time_us == event.time_us + latency_us
        made == EventInit([time_us |-> delivery_time_us, type |-> event.type,
                           src |-> event.src, dst |-> event.dst,
                           payload |-> event.payload, size_bytes |-> event.size_bytes,
                           network_metadata |-> [latency_us |-> latency_us,
                                                 sent_time_us |-> event.time_us,
                                                 delivery_time_us |-> delivery_time_us,
                                                 loss_rate |-> loss_rate]])
        pushed == heappush(st.event_queue,
                           [key |-> delivery_time_us, event |-> made.event,
                            latency |-> latency_us])
    IN  IF u < loss_rate
        THEN [st |-> [st EXCEPT !.metrics = record_dropped(m1), !.rng_pos = pos1],
              result |-> <<>>, raised |-> "none", passed |-> FALSE, due |-> delivery_time_us]
        ELSE IF made.raised # "none"
        THEN [st |-> [st EXCEPT !.metrics = m1, !.rng_pos = pos1],
              result |-> <<>>, raised |-> made.raised, passed |-> TRUE, due |-> delivery_time_us]
        ELSE [st |-> [st EXCEPT !.metrics = m1, !.rng_pos = pos1,
                                !.event_queue = pushed.heap],
              result |-> <<>>, raised |-> pushed.raised, passed |-> TRUE,
              due |-> delivery_time_us]

\* The while loop of advance_to: pop while the root is due.
RECURSIVE PopReady(_, _, _, _)
PopReady(queue, metrics, target_time_us, ready_events) ==
    IF queue = <<>> \/ queue[1].key > target_time_us
    THEN [event_queue |-> queue, metrics |-> metrics, result |-> ready_events,
          raised |-> "none"]
    ELSE LET p == heappop(queue)
         IN  IF p.raised # "none"
             THEN [event_queue |-> p.heap, metrics |-> metrics, result |-> <<>>,
                   raised |-> p.raised]
             ELSE PopReady(p.heap, record_delivered(metrics, queue[1].latency),
                           target_time_us, Append(ready_events, queue[1].event))

\* advance_to(target_time_us) on state st.
LatencyAdvanceTo(st, target_time_us) ==
    LET r == PopReady(st.event_queue, st.metrics, target_time_us, <<>>)
    IN  [st |-> [st EXCEPT !.current_time_us = target_time_us,
                           !.event_queue = r.event_queue,
                           !.metrics = r.metrics],
         result |-> r.result, raised |-> r.raised]

\* NetworkMetrics.reset()
metrics_reset(m) ==
    [m EXCEPT !.packets_sent = 0, !.packets_delivered = 0, !.packets_dropped = 0,
              !.total_latency_us = 0, !.min_latency_us = NoneInt, !.max_latency_us = NoneInt]

\* a reset() that would leave the random streams where they are
LatencyResetKeepsStreams(cfg, st) ==
    [st EXCEPT !.event_queue = <<>>, !.current_time_us = 0, !.metrics = metrics_reset(@)]

\* reset(): the queue is emptied, the time and the metrics are reset, and a
\* new random.Random with the stream's seed replaces the one of every link
\* of the configuration and the default one
LatencyReset(cfg, st) ==
    [st EXCEPT !.event_queue = <<>>,
               !.current_time_us = 0,
               !.metrics = metrics_reset(@),
               !.rng_pos = [k \in DOMAIN @ |->
                               IF k \in StreamKeys(cfg) THEN 0 ELSE @[k]]]

\* get_metrics()
LatencyGetMetrics(st) == st.metrics

(***************************************************************************)
(* DirectNetworkModel (direct_model.py)                                    *)
(***************************************************************************)
\* a direct model that would hold the event back for advance_to
DirectRouteMessageDelayed(st, event) ==
    [st |-> st, result |-> <<>>, raised |-> "none", passed |-> TRUE, due |-> event.time_us]

DirectRouteMessage(st, event) ==
    [st |-> st, result |-> <<event>>, raised |-> "none", passed |-> TRUE,
     due |-> event.time_us]

DirectAdvanceTo(st, target_time_us) == [st |-> st, result |-> <<>>, raised |-> "none"]

DirectReset(st) == st

DirectGetMetrics(st) == NetworkMetrics

(***************************************************************************)
(* The NetworkModel interface the coordinator calls (network_model.py)     *)
(***************************************************************************)
route_message(cfg, seed, st, event) ==
    IF cfg.model = "latency" THEN LatencyRouteMessage(cfg, seed, st, event)
    ELSE DirectRouteMessage(st, event)

advance_to(cfg, st, target_time_us) ==
    IF cfg.model = "latency" THEN LatencyAdvanceTo(st, target_time_us)
    ELSE DirectAdvanceTo(st, target_time_us)

reset(cfg, st) == IF cfg.model = "latency" THEN LatencyReset(cfg, st) ELSE DirectReset(st)

get_metrics(cfg, st) ==
    IF cfg.model = "latency" THEN LatencyGetMetrics(st) ELSE DirectGetMetrics(st)

(***************************************************************************)
(* State                                                                   *)
(***************************************************************************)
VARIABLES
    \* the network model: its configuration and seed, its state
    \* (event_queue, rng_pos, current_time_us, metrics), the last operation
    \* called on it with what it returned or raised
    config, seed, net, last_op,
    \* history: the events that passed the loss draw of route_message and
    \* were not returned to the caller yet, in routing order; the number of
    \* route_message calls made directly on the model
    offered, n_routed,
    \* history of the calls made directly on the model: the number of
    \* route_message calls on every configured link since the model was
    \* constructed or reset, and a second model constructed at that moment
    \* with the same configuration and seed, on which the same calls are made
    net_hist,
    \* the coordinator: Coordinator.time_quantum_us, the argument of run,
    \* Coordinator.current_time_us, Coordinator.pending_events, the position
    \* inside run with its locals target_time_us, the loop index and
    \* all_events, and the exception run propagated
    time_quantum_us, duration_us, current_time_us, pending_events,
    pc, target_time_us, idx, all_events, run_raised,
    \* the adapters of Coordinator.nodes and what each was asked to do
    adapters,
    \* history of the run: the events produced, routed, deposited and handed
    \* over, and the targets chosen
    hist,
    \* the launcher: the position inside SimulationLauncher.run,
    \* SimulationLauncher.processes and docker_containers, the returned
    \* SimulationResult
    lpc, scenario, processes, docker_containers, sim_result,
    \* SimulationLauncher.coordinator, the exception caught by run, and
    \* history: the number of "docker --version" subprocesses launch started,
    \* the number of shutdown() calls and the stop / terminate actions they
    \* performed
    coordinator, exc, docker_probes, shutdown_calls, stop_log,
    \* one node adapter taken alone, with the node behind it
    adapter,
    \* the sensor and the gateway process behind the socket adapters
    node_state

netVars == <<config, seed, net, last_op, offered, n_routed, net_hist>>
coordVars == <<time_quantum_us, duration_us, current_time_us, pending_events,
               pc, target_time_us, idx, all_events, run_raised, adapters, hist>>
launchVars == <<lpc, scenario, processes, docker_containers, sim_result,
                coordinator, exc, docker_probes, shutdown_calls, stop_log>>
adapterVars == <<adapter, node_state>>
vars == <<netVars, coordVars, launchVars, adapterVars>>

NotRaised == <<"none", None>>

NoEvent == [time_us |-> 0, type |-> "", src |-> "", dst |-> None, payload |-> NonePayload,
            size_bytes |-> 0]

\* the links of the configuration
ConfiguredKeys(cfg) == {<<cfg.links[i].src, cfg.links[i].dst>> : i \in 1..Len(cfg.links)}

\* a second model constructed with the same configuration and seed: its
\* state and what its last call returned or raised
NoFresh(cfg) == [st |-> LatencyInit(cfg), result |-> <<>>, raised |-> "none"]

NoNetHist(cfg) ==
    [count |-> [k \in ConfiguredKeys(cfg) |-> 0], fresh |-> NoFresh(cfg)]

\* a call on the network model: the operation, its argument (the target of
\* advance_to, the event of route_message and its time), what it returned
\* or raised, the metrics get_metrics returned, and whether it is an
\* advance_to that directly follows an advance_to with a higher target
NoOp == [op |-> "none", target |-> 0, event |-> NoEvent, result |-> <<>>, raised |-> "none",
         snapshot |-> NetworkMetrics, went_back |-> FALSE]

\* NodeAdapter as the coordinator sees it: whether connect and send_init
\* returned, the targets of the last send_advance and of the last completed
\* wait_done, the number of send_shutdown calls, and whether a child process
\* started for the node is alive.
NewAdapter ==
    [registered |-> FALSE, connected |-> FALSE, initialized |-> FALSE,
     last_advance |-> 0, last_done |-> 0, shutdowns |-> 0, alive |-> FALSE,
     init_reply |-> None]

\* the node processes of the socket run, absent from the other specifications
NoNodes == [n \in NodeIds |-> [queue |-> <<>>, current_time_us |-> 0, inbox |-> <<>>,
                                samples |-> <<>>, processed |-> <<>>,
                                messages_received |-> 0]]

\* the single adapter of the adapter specification, absent from the others
NoAdapter ==
    [kind |-> "none", handle |-> "none", peer |-> "absent", received |-> <<>>,
     log |-> <<>>, shutdowns |-> 0, calls |-> 0,
     last_call |-> [op |-> "none", raised |-> "none"]]

\* the history keeps the targets and the send_advance calls of the first
\* HistoryCap quanta of a run: of every quantum of the runs of Spec and
\* SpecLauncher, of the first ones of the long socket run
HistoryCap == MaxDuration + 1

NoHist == [produced |-> <<>>, routed |-> <<>>, deposited |-> <<>>, handed |-> <<>>,
           targets |-> <<>>]

\* Coordinator.__init__ followed by add_node / add_inprocess_node /
\* add_adapter for every node of NodeOrder.
CoordinatorInit(quantum) ==
    /\ time_quantum_us = quantum
    /\ current_time_us = 0
    /\ pending_events = [n \in NodeIds |-> <<>>]
    /\ adapters = [n \in NodeIds |-> NewAdapter]

\* the node implementations a scenario may name
Implementations == {"python_model", "docker", "renode_inprocess"}

\* a scenario: the implementation of every node, whether the firmware and
\* the platform files its renode nodes name exist, and whether the model
\* file of its ml_inference section exists
NoScenario ==
    [implementation |-> [n \in NodeIds |-> "python_model"],
     firmware_exists |-> TRUE, platform_exists |-> TRUE, ml_model_exists |-> TRUE]

NoExc == [type |-> "none", errors |-> {}]

NoResult ==
    [returned |-> FALSE, success |-> FALSE, virtual_time_sec |-> 0, error_message |-> NoExc]

\* SimulationLauncher.__init__
LauncherInit ==
    /\ processes = <<>>
    /\ docker_containers = <<>>
    /\ sim_result = NoResult
    /\ coordinator = None
    /\ exc = NoExc
    /\ docker_probes = 0
    /\ shutdown_calls = 0
    /\ stop_log = <<>>

(***************************************************************************)
(* The network model driven directly (as the unit tests do)                *)
(***************************************************************************)
InitNet ==
    /\ config \in NetConfigs
    /\ seed \in 0..MaxSeed
    /\ net = LatencyInit(config)
    /\ last_op = NoOp
    /\ offered = <<>>
    /\ n_routed = 0
    /\ net_hist = NoNetHist(config)
    /\ CoordinatorInit(1)
    /\ duration_us = 0
    /\ pc = "unused"
    /\ target_time_us = 0
    /\ idx = 0
    /\ all_events = <<>>
    /\ run_raised = NotRaised
    /\ hist = NoHist
    /\ lpc = "unused"
    /\ scenario = NoScenario
    /\ LauncherInit
    /\ adapter = NoAdapter
    /\ node_state = NoNodes

\* The events of offered that a call's result does not contain.
StillOffered(off, result) ==
    SelectSeq(off, LAMBDA o : \A i \in 1..Len(result) : result[i].payload # o.event.payload)

\* history: the number of route_message calls on every configured link since
\* the model was constructed or reset
CountAfter(count, event) ==
    [k \in DOMAIN count |-> IF k = <<event.src, event.dst>> THEN count[k] + 1 ELSE count[k]]

\* history: the second model after the same call
FreshCall(r) == [st |-> r.st, result |-> r.result, raised |-> r.raised]

NetRoute(event) ==
    /\ n_routed < MaxRouted
    /\ LET r == route_message(config, seed, net, event)
       IN  /\ net' = r.st
           /\ last_op' = [NoOp EXCEPT !.op = "route_message", !.target = event.time_us,
                                      !.event = event, !.result = r.result,
                                      !.raised = r.raised]
           /\ offered' = IF r.passed /\ r.result = <<>>
                         THEN Append(offered, [event |-> event, due |-> r.due])
                         ELSE offered
           /\ net_hist' = [net_hist EXCEPT
                              !.count = CountAfter(@, event),
                              !.fresh = FreshCall(route_message(config, seed, @.st, event))]
    /\ n_routed' = n_routed + 1
    /\ UNCHANGED <<adapterVars, config, seed, coordVars, launchVars>>

NetAdvanceTo(t) ==
    /\ LET r == advance_to(config, net, t)
       IN  /\ net' = r.st
           /\ last_op' = [NoOp EXCEPT !.op = "advance_to", !.target = t,
                                      !.result = r.result, !.raised = r.raised,
                                      !.went_back = (last_op.op = "advance_to"
                                                       /\ t < last_op.target)]
           /\ offered' = StillOffered(offered, r.result)
           /\ net_hist' = [net_hist EXCEPT !.fresh = FreshCall(advance_to(config, @.st, t))]
    /\ UNCHANGED <<adapterVars, config, seed, n_routed, coordVars, launchVars>>

NetReset ==
    /\ net' = reset(config, net)
    /\ last_op' = [NoOp EXCEPT !.op = "reset"]
    /\ offered' = <<>>
    /\ net_hist' = [net_hist EXCEPT !.count = [k \in DOMAIN @ |-> 0],
                                    !.fresh = NoFresh(config)]
    /\ UNCHANGED <<adapterVars, config, seed, n_routed, coordVars, launchVars>>

NetGetMetrics ==
    /\ last_op' = [NoOp EXCEPT !.op = "get_metrics", !.snapshot = get_metrics(config, net)]
    /\ net_hist' = [net_hist EXCEPT !.fresh = FreshCall([st |-> @.st, result |-> <<>>,
                                                           raised |-> "none"])]
    /\ UNCHANGED <<adapterVars, config, seed, net, offered, n_routed, coordVars, launchVars>>

\* the events routed: on the link the configurations may name, and on a
\* link no configuration names, from a sender that gives no dst
RouteLinks == {<<"n1", "n2">>, <<"n2", None>>}

RouteInputs ==
    {MkEvent(t, l[1], l[2], n_routed + 1) : t \in 0..MaxTime, l \in RouteLinks}

NextNet ==
    \/ \E e \in RouteInputs : NetRoute(e)
    \/ \E t \in 0..(MaxTime + MaxLatency) : NetAdvanceTo(t)
    \/ NetReset
    \/ NetGetMetrics

SpecNet == InitNet /\ [][NextNet]_vars

(***************************************************************************)
(* Properties of the network model                                         *)
(***************************************************************************)
\* C5: in every state of a LatencyNetworkModel, packets_sent equals
\* packets_delivered + packets_dropped + the number of events buffered in
\* the event queue.
PacketConservation ==
    config.model = "latency" =>
        net.metrics.packets_sent =
            net.metrics.packets_delivered + net.metrics.packets_dropped
            + Len(net.event_queue)

IsSortedByTime(evs) == \A i, j \in 1..Len(evs) : i < j => evs[i].time_us <= evs[j].time_us

TiesInRoutingOrder ==
    [][(config.model = "latency" /\ last_op'.op = "advance_to") =>
          \A i, j \in 1..Len(offered) :
              (i < j /\ offered[i].due = offered[j].due
                     /\ offered[j].due <= last_op'.target) =>
                  \E a, b \in 1..Len(last_op'.result) :
                      /\ a < b
                      /\ last_op'.result[a].payload = offered[i].event.payload
                      /\ last_op'.result[b].payload = offered[j].event.payload]_vars

\* C8: no operation of DirectNetworkModel or LatencyNetworkModel raises,
\* whatever the event and the state.
NoNetworkOpRaises == last_op.raised = "none"

(***************************************************************************)
(* Coordinator.run (coordinator.py)                                        *)
(***************************************************************************)
NumNodes == Len(NodeOrder)

\* target_time_us = min(current_time_us + time_quantum_us, duration_us)
TargetTimeUnclamped(cur, quantum, duration) == cur + quantum
TargetTime(cur, quantum, duration) == Min2(cur + quantum, duration)

\* while self.current_time_us < duration_us
ContinueOnce(cur, duration) == cur = 0 /\ cur < duration
Continue(cur, duration) == cur < duration

\* self.pending_events[node_id] = [] after send_advance
InboxKept(inbox) == inbox
InboxAfterAdvance(inbox) == <<>>

\* all_events.extend(events)
MergeOutboxFront(all, outbox) == outbox \o all
MergeOutbox(all, outbox) == all \o outbox

\* current_time_us when an adapter call of the quantum with the given target
\* raises: run has no except clause, the assignment of Phase 4 is not reached
ClockOnErrorAdvanced(cur, target) == target
ClockOnError(cur, target) == cur

\* self.current_time_us = target_time_us
ClockKept(cur, target) == cur
ClockAfterQuantum(cur, target) == target

\* the join loop has called wait_done on every node once index i is done
JoinDoneAfterFirst(i) == i >= 1
JoinDone(i) == i >= NumNodes

\* "if routed_event.dst and routed_event.dst in self.pending_events"
Deliverable(pending, ev) == ev.dst # None /\ ev.dst # "" /\ ev.dst \in DOMAIN pending

RECURSIVE DeliverAll(_, _)
DeliverAll(pending, evs) ==
    IF evs = <<>> THEN pending
    ELSE DeliverAll(IF Deliverable(pending, Head(evs))
                    THEN [pending EXCEPT ![Head(evs).dst] = Append(@, Head(evs))]
                    ELSE pending,
                    Tail(evs))

\* history: the deposits DeliverAll(pending, evs) makes
DepositsOf(pending, evs) ==
    LET d == SelectSeq(evs, LAMBDA ev : Deliverable(pending, ev))
    IN  [i \in 1..Len(d) |-> [id |-> d[i].payload, dst |-> d[i].dst]]

\* the state in which run(duration_us) is called: every node registered,
\* connect_all and initialize_all returned
InitRun ==
    /\ config \in RunConfigs
    /\ seed \in 0..MaxSeed
    /\ net = LatencyInit(config)
    /\ last_op = NoOp
    /\ offered = <<>>
    /\ n_routed = 0
    /\ net_hist = NoNetHist(config)
    /\ time_quantum_us \in 1..MaxQuantum
    /\ duration_us \in 0..MaxDuration
    /\ current_time_us = 0
    /\ pending_events = [n \in NodeIds |-> <<>>]
    /\ adapters = [n \in NodeIds |-> [NewAdapter EXCEPT !.registered = TRUE,
                                                        !.connected = TRUE,
                                                        !.initialized = TRUE,
                                                        !.init_reply = "READY"]]
    /\ pc = "loop"
    /\ target_time_us = 0
    /\ idx = 0
    /\ all_events = <<>>
    /\ run_raised = NotRaised
    /\ hist = NoHist
    /\ lpc = "unused"
    /\ scenario = NoScenario
    /\ LauncherInit
    /\ adapter = NoAdapter
    /\ node_state = NoNodes

\* an exception leaves run: nothing after the raising call is executed
Raise(what, node) ==
    /\ pc' = "raised"
    /\ run_raised' = <<what, node>>

\* while self.current_time_us < duration_us: target_time_us = min(...)
LoopTest ==
    /\ pc = "loop"
    /\ IF Continue(current_time_us, duration_us)
       THEN /\ target_time_us' = TargetTime(current_time_us, time_quantum_us, duration_us)
            /\ pc' = "fanout"
            /\ hist' = IF Len(hist.targets) < HistoryCap
                       THEN [hist EXCEPT !.targets = Append(@, target_time_us')]
                       ELSE hist
       ELSE /\ pc' = "shutdown"
            /\ UNCHANGED <<target_time_us, hist>>
    /\ idx' = 1
    /\ UNCHANGED <<adapterVars, netVars, launchVars, time_quantum_us, duration_us, current_time_us,
                   pending_events, all_events, run_raised, adapters>>

\* Phase 1, one node: conn.send_advance(target_time_us, pending) returns
SendAdvanceBody ==
    /\ pc = "fanout"
    /\ LET n == NodeOrder[idx]
       IN  /\ adapters' = [adapters EXCEPT ![n].last_advance = target_time_us]
           /\ hist' = IF Len(hist.handed) < NumNodes * HistoryCap
                       THEN [hist EXCEPT !.handed =
                                Append(@, [node |-> n, target |-> target_time_us,
                                           inbox |-> pending_events[n]])]
                       ELSE hist
           /\ pending_events' = [pending_events EXCEPT ![n] = InboxAfterAdvance(@)]
    /\ IF idx = NumNodes
       THEN pc' = "join" /\ idx' = 1 /\ all_events' = <<>>
       ELSE pc' = "fanout" /\ idx' = idx + 1 /\ UNCHANGED all_events
    /\ UNCHANGED <<adapter, netVars, launchVars, time_quantum_us, duration_us,
                   current_time_us, target_time_us, run_raised>>

SendAdvance == SendAdvanceBody /\ UNCHANGED node_state

\* Phase 1, one node: conn.send_advance raises
SendAdvanceRaises ==
    /\ pc = "fanout"
    /\ Raise("send_advance", NodeOrder[idx])
    /\ current_time_us' = ClockOnError(current_time_us, target_time_us)
    /\ UNCHANGED <<adapterVars, netVars, launchVars, time_quantum_us, duration_us,
                   pending_events, target_time_us, idx, all_events, adapters, hist>>

\* the outboxes a node may answer with: at most MaxOutbox events (and at
\* most MaxEvents in a run) stamped with the target, to a registered node,
\* to an unregistered node or to nobody, with fresh payloads
RECURSIVE OutboxesFrom(_, _, _)
OutboxesFrom(n, k, first_id) ==
    IF k = 0 THEN {<<>>}
    ELSE {<<>>} \cup
         {<<MkEvent(target_time_us, n, d, first_id)>> \o rest :
             d \in DstValues, rest \in OutboxesFrom(n, k - 1, first_id + 1)}

Outboxes(n) ==
    OutboxesFrom(n, Min2(MaxOutbox, MaxEvents - Len(hist.produced)), Len(hist.produced) + 1)

\* Phase 2, one node: events = conn.wait_done(); all_events.extend(events)
WaitDoneBody(outbox) ==
    /\ pc = "join"
    /\ LET n == NodeOrder[idx]
       IN  adapters' = [adapters EXCEPT ![n].last_done = target_time_us]
    /\ all_events' = MergeOutbox(all_events, outbox)
    /\ hist' = [hist EXCEPT !.produced = @ \o outbox]
    /\ IF JoinDone(idx)
       THEN pc' = "route" /\ idx' = 1
       ELSE pc' = "join" /\ idx' = idx + 1
    /\ UNCHANGED <<adapter, netVars, launchVars, time_quantum_us, duration_us,
                   current_time_us, pending_events, target_time_us, run_raised>>

WaitDone(outbox) == WaitDoneBody(outbox) /\ UNCHANGED node_state

\* Phase 2, one node: conn.wait_done raises
WaitDoneRaises ==
    /\ pc = "join"
    /\ Raise("wait_done", NodeOrder[idx])
    /\ current_time_us' = ClockOnError(current_time_us, target_time_us)
    /\ UNCHANGED <<adapterVars, netVars, launchVars, time_quantum_us, duration_us,
                   pending_events, target_time_us, idx, all_events, adapters, hist>>

\* Phase 3, one event: route it and deliver what route_message returned
RouteOne ==
    /\ pc = "route"
    /\ idx <= Len(all_events)
    /\ LET event == all_events[idx]
           r == route_message(config, seed, net, event)
       IN  /\ net' = r.st
           /\ last_op' = [NoOp EXCEPT !.op = "route_message", !.target = event.time_us,
                                      !.event = event, !.result = r.result,
                                      !.raised = r.raised]
           /\ offered' = IF r.passed /\ r.result = <<>>
                         THEN Append(offered, [event |-> event, due |-> r.due])
                         ELSE offered
           /\ hist' = [hist EXCEPT !.routed = Append(@, event.payload),
                                   !.deposited = IF r.raised = "none"
                                                 THEN @ \o DepositsOf(pending_events, r.result)
                                                 ELSE @]
           /\ IF r.raised = "none"
              THEN /\ pending_events' = DeliverAll(pending_events, r.result)
                   /\ pc' = "route"
                   /\ idx' = idx + 1
                   /\ UNCHANGED run_raised
              ELSE /\ Raise("route_message", event.src)
                   /\ UNCHANGED <<pending_events, idx>>
    /\ UNCHANGED <<adapterVars, config, seed, n_routed, net_hist, launchVars, time_quantum_us, duration_us,
                   current_time_us, target_time_us, all_events, adapters>>

\* Phase 3b and 4: collect the delayed events, deliver them, advance time
AdvanceNetwork ==
    /\ pc = "route"
    /\ idx > Len(all_events)
    /\ LET r == advance_to(config, net, target_time_us)
       IN  /\ net' = r.st
           /\ last_op' = [NoOp EXCEPT !.op = "advance_to", !.target = target_time_us,
                                      !.result = r.result, !.raised = r.raised,
                                      !.went_back = (last_op.op = "advance_to"
                                                       /\ target_time_us < last_op.target)]
           /\ offered' = StillOffered(offered, r.result)
           /\ IF r.raised = "none"
              THEN /\ pending_events' = DeliverAll(pending_events, r.result)
                   /\ hist' = [hist EXCEPT !.deposited =
                                   @ \o DepositsOf(pending_events, r.result)]
                   /\ current_time_us' = ClockAfterQuantum(current_time_us, target_time_us)
                   /\ pc' = "loop"
                   /\ UNCHANGED run_raised
              ELSE /\ Raise("advance_to", None)
                   /\ UNCHANGED <<pending_events, hist, current_time_us>>
    /\ UNCHANGED <<adapterVars, config, seed, n_routed, net_hist, launchVars, time_quantum_us, duration_us,
                   target_time_us, idx, all_events, adapters>>

\* after the loop, one node: conn.send_shutdown() returns
SendShutdown ==
    /\ pc = "shutdown"
    /\ LET n == NodeOrder[idx]
       IN  adapters' = [adapters EXCEPT ![n].shutdowns = @ + 1, ![n].alive = FALSE]
    /\ IF idx = NumNodes
       THEN pc' = "returned" /\ UNCHANGED idx
       ELSE pc' = "shutdown" /\ idx' = idx + 1
    /\ UNCHANGED <<adapterVars, netVars, launchVars, time_quantum_us, duration_us, current_time_us,
                   pending_events, target_time_us, all_events, run_raised, hist>>

\* after the loop, one node: conn.send_shutdown() raises
SendShutdownRaises ==
    /\ pc = "shutdown"
    /\ Raise("send_shutdown", NodeOrder[idx])
    /\ UNCHANGED <<adapterVars, netVars, launchVars, time_quantum_us, duration_us, current_time_us,
                   pending_events, target_time_us, idx, all_events, adapters, hist>>

RunStep ==
    \/ LoopTest
    \/ SendAdvance
    \/ SendAdvanceRaises
    \/ (pc = "join" /\ \E outbox \in Outboxes(NodeOrder[idx]) : WaitDone(outbox))
    \/ WaitDoneRaises
    \/ RouteOne
    \/ AdvanceNetwork
    \/ SendShutdown
    \/ SendShutdownRaises

Next == RunStep

Spec == InitRun /\ [][Next]_vars

\* run is a sequential loop on one thread: it keeps taking its next step
\* until it returns or an exception leaves it
SpecFair == Spec /\ WF_vars(Next)

(***************************************************************************)
(* SimulationLauncher.run (launcher.py)                                    *)
(***************************************************************************)
Scenarios ==
    {[implementation |-> impl, firmware_exists |-> fw, platform_exists |-> pl,
      ml_model_exists |-> ml] :
        impl \in [NodeIds -> Implementations], fw \in BOOLEAN, pl \in BOOLEAN,
        ml \in BOOLEAN}

NodeIndex(n) == CHOOSE i \in 1..NumNodes : NodeOrder[i] = n

\* validate_scenario(): the list of errors, here as a set: one per renode
\* node and missing file, one for a missing ML model file
validate_scenarioFirstOnly(sc) ==
    LET bad == {n \in NodeIds : sc.implementation[n] = "renode_inprocess"
                                /\ ~sc.firmware_exists}
    IN  IF bad # {} THEN {<<CHOOSE n \in bad : \A m \in bad : NodeIndex(n) <= NodeIndex(m),
                            "firmware">>}
        ELSE IF ~sc.ml_model_exists THEN {<<"ml_inference", "model_path">>}
        ELSE {}
validate_scenario(sc) ==
    {<<n, "firmware">> : n \in {m \in NodeIds : sc.implementation[m] = "renode_inprocess"
                                                /\ ~sc.firmware_exists}}
    \cup {<<n, "platform">> : n \in {m \in NodeIds : sc.implementation[m] = "renode_inprocess"
                                                     /\ ~sc.platform_exists}}
    \cup (IF sc.ml_model_exists THEN {} ELSE {<<"ml_inference", "model_path">>})

\* SimulationLauncher(scenario), before run() is called
InitLauncher ==
    /\ config \in {DirectConfig,
                   [model |-> "latency", default_latency_us |-> 1,
                    default_loss_rate |-> 0, links |-> <<>>]}
    /\ seed = 0
    /\ net = LatencyInit(config)
    /\ last_op = NoOp
    /\ offered = <<>>
    /\ n_routed = 0
    /\ net_hist = NoNetHist(config)
    /\ time_quantum_us = 1
    /\ duration_us \in 1..2
    /\ current_time_us = 0
    /\ pending_events = [n \in NodeIds |-> <<>>]
    /\ adapters = [n \in NodeIds |-> NewAdapter]
    /\ pc = "not_called"
    /\ target_time_us = 0
    /\ idx = 0
    /\ all_events = <<>>
    /\ run_raised = NotRaised
    /\ hist = NoHist
    /\ lpc = "launch"
    /\ scenario \in Scenarios
    /\ LauncherInit
    /\ adapter = NoAdapter
    /\ node_state = NoNodes

\* an exception raised inside the try block of run()
Raised(origin, errors) == [type |-> origin, errors |-> errors]

\* launch(), phase 1: validate the scenario; raise ValueError with every
\* error found, or go on
Launch ==
    /\ lpc = "launch"
    /\ LET errors == validate_scenario(scenario)
       IN  IF errors # {}
           THEN /\ lpc' = "except"
                /\ exc' = Raised("validate_scenario", errors)
                /\ UNCHANGED idx
           ELSE /\ lpc' = "start_docker"
                /\ idx' = 1
                /\ UNCHANGED exc
    /\ UNCHANGED <<adapterVars, netVars, time_quantum_us, duration_us, current_time_us, pending_events,
                   pc, target_time_us, all_events, run_raised, hist, adapters,
                   scenario, processes, docker_containers, sim_result,
                   coordinator, docker_probes, shutdown_calls, stop_log>>

\* _start_docker_container(): "Store container ID for cleanup" is commented
\* out, the list is left as it is
ContainersTracked(containers, node_id) == Append(containers, node_id)
ContainersAfterStart(containers, node_id) == containers

\* what "docker --version" and the docker section of the node can lead to
DockerOutcomes == {"unavailable", "started", "RuntimeError", "ValueError"}

\* launch(), phase 2, one node: nodes that are not docker nodes are skipped;
\* for a docker node "docker --version" is run, then docker is missing
\* (warning, return), or its exit code is not 0 (RuntimeError), or the node
\* names no image (ValueError), or the stub returns
StartDockerContainer(outcome) ==
    /\ lpc = "start_docker"
    /\ LET n == NodeOrder[idx]
           is_docker == scenario.implementation[n] = "docker"
       IN  /\ is_docker \/ outcome = "unavailable"
           /\ docker_probes' = IF is_docker THEN docker_probes + 1 ELSE docker_probes
           /\ docker_containers' = IF is_docker /\ outcome = "started"
                                   THEN ContainersAfterStart(docker_containers, n)
                                   ELSE docker_containers
           /\ IF is_docker /\ outcome \in {"RuntimeError", "ValueError"}
              THEN /\ exc' = Raised("_start_docker_container", {})
                   /\ lpc' = "except"
                   /\ UNCHANGED idx
              ELSE /\ UNCHANGED exc
                   /\ IF idx = NumNodes
                      THEN lpc' = "register" /\ idx' = 1
                      ELSE lpc' = "start_docker" /\ idx' = idx + 1
    /\ UNCHANGED <<adapterVars, netVars, time_quantum_us, duration_us, current_time_us, pending_events,
                   pc, target_time_us, all_events, run_raised, hist, adapters,
                   scenario, processes, sim_result, coordinator, shutdown_calls, stop_log>>

\* launch(), phases 3 to 5: the network model and the coordinator are
\* created and the nodes are registered in scenario order; _register_node
\* raises ValueError for a socket node (python_model, docker) without a
\* port. k is the first node that has none (NumNodes + 1: every node has).
RegisterNodes(k) ==
    /\ lpc = "register"
    /\ k <= NumNodes => scenario.implementation[NodeOrder[k]] # "renode_inprocess"
    /\ coordinator' = "Coordinator"
    /\ adapters' = [n \in NodeIds |->
                       IF NodeIndex(n) < k THEN [NewAdapter EXCEPT !.registered = TRUE]
                       ELSE NewAdapter]
    /\ IF k <= NumNodes
       THEN /\ exc' = Raised("_register_node", {})
            /\ lpc' = "except"
            /\ UNCHANGED idx
       ELSE /\ lpc' = "connect_all"
            /\ idx' = 1
            /\ UNCHANGED exc
    /\ UNCHANGED <<adapterVars, netVars, time_quantum_us, duration_us, current_time_us, pending_events,
                   pc, target_time_us, all_events, run_raised, hist,
                   scenario, processes, docker_containers, sim_result,
                   docker_probes, shutdown_calls, stop_log>>

\* connect_all(), one node: conn.connect() returns; an in-process renode
\* node has started its emulator process
Connect ==
    /\ lpc = "connect_all"
    /\ LET n == NodeOrder[idx]
       IN  adapters' = [adapters EXCEPT
                           ![n].connected = TRUE,
                           ![n].alive = (scenario.implementation[n] = "renode_inprocess")]
    /\ IF idx = NumNodes
       THEN lpc' = "initialize_all" /\ idx' = 1
       ELSE lpc' = "connect_all" /\ idx' = idx + 1
    /\ UNCHANGED <<adapterVars, netVars, time_quantum_us, duration_us, current_time_us, pending_events,
                   pc, target_time_us, all_events, run_raised, hist,
                   scenario, processes, docker_containers, sim_result,
                   coordinator, exc, docker_probes, shutdown_calls, stop_log>>

\* connect_all(), one node: conn.connect() raises; RenodeNode.start() may
\* raise before the emulator process is started or after (monitor connection
\* refused), leaving the process running
ConnectRaises(started) ==
    /\ lpc = "connect_all"
    /\ LET n == NodeOrder[idx]
       IN  /\ started => scenario.implementation[n] = "renode_inprocess"
           /\ adapters' = [adapters EXCEPT ![n].alive = started]
    /\ lpc' = "except"
    /\ exc' = Raised("connect", {})
    /\ UNCHANGED <<adapterVars, netVars, time_quantum_us, duration_us, current_time_us, pending_events,
                   pc, target_time_us, idx, all_events, run_raised, hist,
                   scenario, processes, docker_containers, sim_result,
                   coordinator, docker_probes, shutdown_calls, stop_log>>

\* what a node may answer to INIT: an in-process node is not asked, a socket
\* node answers a line (empty at end of file)
Replies(implementation) ==
    IF implementation = "renode_inprocess" THEN {None} ELSE {"READY", "ERROR bad", ""}

\* NodeConnection.send_init: 'if response != "READY": raise RuntimeError';
\* InProcessNodeAdapter.send_init only logs
InitAcceptedAny(implementation, reply) == TRUE
InitAccepted(implementation, reply) ==
    implementation = "renode_inprocess" \/ reply = "READY"

\* initialize_all(), one node: conn.send_init(config) returns; after the
\* last node launch() returns and coordinator.run(duration_us) is called
SendInit(reply) ==
    /\ lpc = "initialize_all"
    /\ InitAccepted(scenario.implementation[NodeOrder[idx]], reply)
    /\ adapters' = [adapters EXCEPT ![NodeOrder[idx]].initialized = TRUE,
                                    ![NodeOrder[idx]].init_reply = reply]
    /\ IF idx = NumNodes
       THEN lpc' = "run" /\ pc' = "loop" /\ idx' = 0
       ELSE lpc' = "initialize_all" /\ idx' = idx + 1 /\ UNCHANGED pc
    /\ UNCHANGED <<adapterVars, netVars, time_quantum_us, duration_us, current_time_us, pending_events,
                   target_time_us, all_events, run_raised, hist,
                   scenario, processes, docker_containers, sim_result,
                   coordinator, exc, docker_probes, shutdown_calls, stop_log>>

\* initialize_all(), one node: conn.send_init raises (reply other than READY)
SendInitRaises(reply) ==
    /\ lpc = "initialize_all"
    /\ ~InitAccepted(scenario.implementation[NodeOrder[idx]], reply)
    /\ adapters' = [adapters EXCEPT ![NodeOrder[idx]].init_reply = reply]
    /\ lpc' = "except"
    /\ exc' = Raised("send_init", {})
    /\ UNCHANGED <<adapterVars, netVars, time_quantum_us, duration_us, current_time_us, pending_events,
                   pc, target_time_us, idx, all_events, run_raised, hist,
                   scenario, processes, docker_containers, sim_result,
                   coordinator, docker_probes, shutdown_calls, stop_log>>

\* SimulationResult(success=True, duration_sec=elapsed,
\* virtual_time_sec=self.scenario.duration_s); the model counts the scenario
\* duration in the unit of duration_us
SuccessResult(duration) ==
    [returned |-> FALSE, success |-> TRUE, virtual_time_sec |-> duration,
     error_message |-> NoExc]

\* SimulationResult(success=False, duration_sec=elapsed, virtual_time_sec=0,
\* error_message=str(e))
FailureResultKeepsTime(e, reached) ==
    [returned |-> FALSE, success |-> FALSE, virtual_time_sec |-> reached,
     error_message |-> e]
FailureResult(e, reached) ==
    [returned |-> FALSE, success |-> FALSE, virtual_time_sec |-> 0, error_message |-> e]

\* coordinator.run returned: SimulationResult(success=True, ...)
RunSucceeded ==
    /\ lpc = "run"
    /\ pc = "returned"
    /\ sim_result' = SuccessResult(duration_us)
    /\ lpc' = "finally"
    /\ UNCHANGED <<adapterVars, netVars, coordVars, scenario, processes, docker_containers,
                   coordinator, exc, docker_probes, shutdown_calls, stop_log>>

\* coordinator.run raised: control goes to the except clause
RunFailed ==
    /\ lpc = "run"
    /\ pc = "raised"
    /\ lpc' = "except"
    /\ exc' = Raised("run", {})
    /\ UNCHANGED <<adapterVars, netVars, coordVars, scenario, processes, docker_containers, sim_result,
                   coordinator, docker_probes, shutdown_calls, stop_log>>

\* except Exception as e: return SimulationResult(success=False, ...)
Except ==
    /\ lpc = "except"
    /\ sim_result' = FailureResult(exc, current_time_us)
    /\ lpc' = "finally"
    /\ UNCHANGED <<adapterVars, netVars, coordVars, scenario, processes, docker_containers,
                   coordinator, exc, docker_probes, shutdown_calls, stop_log>>

\* the stop and terminate actions of one shutdown() call: "docker stop" for
\* every entry of docker_containers, terminate (then kill) for every entry of
\* processes whose poll() is None
StopActions(call, containers, procs) ==
    [i \in 1..Len(containers) |->
        [call |-> call, action |-> "docker stop", target |-> containers[i]]]
    \o LET running == SelectSeq(procs, LAMBDA p : p.running)
       IN  [i \in 1..Len(running) |->
               [call |-> call, action |-> "terminate", target |-> running[i].pid]]

\* shutdown(): stop every container of docker_containers, terminate (then
\* kill) every process of processes that is still running; neither list is
\* changed, and no adapter is touched
shutdown ==
    /\ shutdown_calls' = shutdown_calls + 1
    /\ stop_log' = stop_log \o StopActions(shutdown_calls + 1, docker_containers, processes)
    /\ processes' = [i \in 1..Len(processes) |-> [processes[i] EXCEPT !.running = FALSE]]
    /\ UNCHANGED <<docker_containers, adapters>>

\* finally: self.shutdown(), then run() returns the result
Finally ==
    /\ lpc = "finally"
    /\ shutdown
    /\ sim_result' = [sim_result EXCEPT !.returned = TRUE]
    /\ lpc' = "returned"
    /\ UNCHANGED <<adapterVars, netVars, time_quantum_us, duration_us, current_time_us, pending_events,
                   pc, target_time_us, idx, all_events, run_raised, hist, scenario,
                   coordinator, exc, docker_probes>>

\* launcher.shutdown() called by the owner of the launcher, before run() or
\* after it returned
ShutdownCall ==
    /\ lpc \in {"launch", "returned"}
    /\ shutdown_calls < MaxShutdownCalls
    /\ shutdown
    /\ UNCHANGED <<adapterVars, netVars, time_quantum_us, duration_us, current_time_us, pending_events,
                   pc, target_time_us, idx, all_events, run_raised, hist, scenario,
                   lpc, sim_result, coordinator, exc, docker_probes>>

LauncherStep ==
    \/ Launch
    \/ \E outcome \in DockerOutcomes : StartDockerContainer(outcome)
    \/ \E k \in 1..(NumNodes + 1) : RegisterNodes(k)
    \/ Connect
    \/ \E started \in BOOLEAN : ConnectRaises(started)
    \/ (lpc = "initialize_all" /\
        \E reply \in Replies(scenario.implementation[NodeOrder[idx]]) : SendInit(reply))
    \/ (lpc = "initialize_all" /\
        \E reply \in Replies(scenario.implementation[NodeOrder[idx]]) : SendInitRaises(reply))
    \/ RunSucceeded
    \/ RunFailed
    \/ Except
    \/ Finally
    \/ ShutdownCall

NextLauncher == LauncherStep \/ RunStep

SpecLauncher == InitLauncher /\ [][NextLauncher]_vars

(***************************************************************************)
(* One node adapter and the node behind it (coordinator.py,                *)
(* docker_protocol_adapter.py, renode_node.py)                             *)
(***************************************************************************)
\* NodeConnection, DockerProtocolAdapter, InProcessNodeAdapter(RenodeNode)
AdapterKinds == {"socket", "stdio", "inprocess"}

\* The adapter after its constructor. handle is the channel the object
\* holds: "none" (sock_file / process / monitor_socket is None), "open",
\* "closed" (socket: sock.close() was called, sock_file still refers to the
\* connection; stdio: connected was reset to False), "unconnected"
\* (RenodeNode: monitor_socket assigned but its connect failed). peer is the
\* node process: "absent" until started, "alive", "gone" once it exited.
\* received is what reached the node, log is what each send_shutdown call
\* did to the node or the channel.
AdapterInit(kind) == [NoAdapter EXCEPT !.kind = kind]

Called(a, op, raised) ==
    [a EXCEPT !.calls = @ + 1, !.last_call = [op |-> op, raised |-> raised]]

\* NodeConnection.connect: refused after the retries unless the node
\* listens. DockerProtocolAdapter.connect: returns when connected already,
\* RuntimeError unless the container runs. InProcessNodeAdapter.connect:
\* RenodeNode.start() starts the emulator; ok says whether the monitor port
\* accepted the connection before the retries ran out.
AdapterConnectResult(a, ok) ==
    IF a.kind = "socket"
    THEN IF a.peer = "alive"
         THEN Called([a EXCEPT !.handle = "open"], "connect", "none")
         ELSE Called(a, "connect", "ConnectionRefusedError")
    ELSE IF a.kind = "stdio"
    THEN IF a.handle = "open" THEN Called(a, "connect", "none")
         ELSE IF a.peer = "alive"
         THEN Called([a EXCEPT !.handle = "open"], "connect", "none")
         ELSE Called(a, "connect", "RuntimeError")
    ELSE IF ok
         THEN Called([a EXCEPT !.handle = "open", !.peer = "alive"], "connect", "none")
         ELSE Called([a EXCEPT !.handle = "unconnected", !.peer = "alive"],
                     "connect", "RenodeConnectionError")

\* send_init of the three adapters
AdapterSendInitResult(a, reply) ==
    IF a.kind = "inprocess" THEN Called(a, "send_init", "none")
    ELSE IF a.kind = "socket" /\ a.handle = "none"
    THEN Called(a, "send_init", "AttributeError")
    ELSE IF a.kind = "stdio" /\ a.handle # "open"
    THEN Called(a, "send_init", "RuntimeError")
    ELSE IF a.peer # "alive"
    THEN Called(a, "send_init", "RuntimeError")
    ELSE Called([a EXCEPT !.received = Append(@, "INIT")], "send_init",
                IF InitAccepted("python_model", reply) THEN "none" ELSE "RuntimeError")

\* NodeConnection.send_shutdown: sock_file.write, flush, sock.close(), with
\* no guard and no handler. broken: the write to a peer that is gone fails.
SocketSendShutdown(a, broken) ==
    LET k == a.shutdowns + 1
        b == [a EXCEPT !.shutdowns = k]
    IN  IF a.handle = "none" THEN Called(b, "send_shutdown", "AttributeError")
        ELSE IF a.peer # "alive" /\ broken
        THEN Called(b, "send_shutdown", "BrokenPipeError")
        ELSE Called([b EXCEPT
                        !.received = IF a.peer = "alive" THEN Append(@, "SHUTDOWN") ELSE @,
                        !.log = (IF a.peer = "alive"
                                 THEN Append(@, [call |-> k, action |-> "SHUTDOWN"]) ELSE @)
                                \o (IF a.handle = "open"
                                    THEN <<[call |-> k, action |-> "close"]>> ELSE <<>>),
                        !.handle = "closed"],
                    "send_shutdown", "none")

\* DockerProtocolAdapter.send_shutdown: returns when not connected; writes
\* SHUTDOWN (_write_line turns BrokenPipeError into RuntimeError, which only
\* the finally clause sees), waits for the exit, terminates after the
\* timeout; finally connected = False. broken: the child did not exit in
\* time.
StdioSendShutdown(a, broken) ==
    LET k == a.shutdowns + 1
        b == [a EXCEPT !.shutdowns = k]
    IN  IF a.handle # "open" THEN Called(b, "send_shutdown", "none")
        ELSE IF a.peer # "alive"
        THEN Called([b EXCEPT !.handle = "closed"], "send_shutdown", "RuntimeError")
        ELSE Called([b EXCEPT
                        !.received = Append(@, "SHUTDOWN"),
                        !.log = Append(@, [call |-> k, action |-> "SHUTDOWN"])
                                \o (IF broken
                                    THEN <<[call |-> k, action |-> "terminate"]>> ELSE <<>>),
                        !.peer = "gone",
                        !.handle = "closed"],
                    "send_shutdown", "none")

\* InProcessNodeAdapter.send_shutdown: RenodeNode.stop(). With a monitor
\* socket it sends quit, ignoring RenodeTimeoutError and
\* RenodeConnectionError only: sendall on a socket that never connected
\* raises BrokenPipeError, on one whose peer is gone it may (broken). Then
\* the socket is closed, the process terminated, both set to None.
InprocessSendShutdown(a, broken) ==
    LET k == a.shutdowns + 1
        b == [a EXCEPT !.shutdowns = k]
    IN  IF a.handle = "none" THEN Called(b, "send_shutdown", "none")
        ELSE IF a.handle = "unconnected" \/ (a.peer # "alive" /\ broken)
        THEN Called(b, "send_shutdown", "BrokenPipeError")
        ELSE Called([b EXCEPT
                        !.received = IF a.peer = "alive" THEN Append(@, "quit") ELSE @,
                        !.log = (IF a.peer = "alive"
                                 THEN Append(@, [call |-> k, action |-> "quit"]) ELSE @)
                                \o <<[call |-> k, action |-> "terminate"]>>,
                        !.peer = "gone",
                        !.handle = "none"],
                    "send_shutdown", "none")

AdapterSendShutdownResult(a, broken) ==
    IF a.kind = "socket" THEN SocketSendShutdown(a, broken)
    ELSE IF a.kind = "stdio" THEN StdioSendShutdown(a, broken)
    ELSE InprocessSendShutdown(a, broken)

\* an adapter of any kind, constructed and not used yet
InitAdapter ==
    /\ config = DirectConfig
    /\ seed = 0
    /\ net = LatencyInit(config)
    /\ last_op = NoOp
    /\ offered = <<>>
    /\ n_routed = 0
    /\ net_hist = NoNetHist(config)
    /\ CoordinatorInit(1)
    /\ duration_us = 0
    /\ pc = "unused"
    /\ target_time_us = 0
    /\ idx = 0
    /\ all_events = <<>>
    /\ run_raised = NotRaised
    /\ hist = NoHist
    /\ lpc = "unused"
    /\ scenario = NoScenario
    /\ LauncherInit
    /\ adapter \in {AdapterInit(k) : k \in AdapterKinds}
    /\ node_state = NoNodes

\* the node process or the container is started by its owner
PeerStarts ==
    /\ adapter.kind # "inprocess"
    /\ adapter.peer = "absent"
    /\ adapter' = [adapter EXCEPT !.peer = "alive"]
    /\ UNCHANGED <<netVars, coordVars, launchVars, node_state>>

\* the node process exits or is killed
PeerExits ==
    /\ adapter.peer = "alive"
    /\ adapter' = [adapter EXCEPT !.peer = "gone"]
    /\ UNCHANGED <<netVars, coordVars, launchVars, node_state>>

AdapterConnect(ok) ==
    /\ adapter.calls < MaxAdapterCalls
    /\ adapter.handle = "none"
    /\ adapter.kind # "inprocess" => ok
    /\ adapter' = AdapterConnectResult(adapter, ok)
    /\ UNCHANGED <<netVars, coordVars, launchVars, node_state>>

AdapterSendInit(reply) ==
    /\ adapter.calls < MaxAdapterCalls
    /\ adapter.received = <<>>
    /\ adapter' = AdapterSendInitResult(adapter, reply)
    /\ UNCHANGED <<netVars, coordVars, launchVars, node_state>>

AdapterSendShutdown(broken) ==
    /\ adapter.calls < MaxAdapterCalls
    /\ adapter' = AdapterSendShutdownResult(adapter, broken)
    /\ UNCHANGED <<netVars, coordVars, launchVars, node_state>>

NextAdapter ==
    \/ PeerStarts
    \/ PeerExits
    \/ \E ok \in BOOLEAN : AdapterConnect(ok)
    \/ \E reply \in Replies("python_model") : AdapterSendInit(reply)
    \/ \E broken \in BOOLEAN : AdapterSendShutdown(broken)

SpecAdapter == InitAdapter /\ [][NextAdapter]_vars

(***************************************************************************)
(* A socket run with the sensor and the gateway model                      *)
(* (sim/device/sensor_node.py, sim/edge/gateway_node.py)                   *)
(***************************************************************************)
\* schedule_event(1_000_000, 'SAMPLE', ...) and current_time_us + 1_000_000
SampleIntervalUs == 1000000
\* time_us=event.time_us + 100
ProcessDelayUs == 100
\* schedule_internal_event(5_000_000, 'AGGREGATE', {})
AggregateIntervalUs == 5000000

\* the run of the claim: time_quantum_us = 1000, duration 2 s
S1QuantumUs == 1000
S1DurationUs == 2000000

\* the sensor is registered first, the gateway second, under the id the
\* sensor addresses its TRANSMIT events to ('gateway')
SensorId == NodeOrder[1]
GatewayId == NodeOrder[2]

\* heapq.heappush on a node's event queue, whose entries compare by time_us
\* only: the queue is kept here in the order heappop returns its entries
RECURSIVE Schedule(_, _)
Schedule(queue, ev) ==
    IF queue = <<>> THEN <<ev>>
    ELSE IF ev.time_us < Head(queue).time_us THEN <<ev>> \o queue
    ELSE <<Head(queue)>> \o Schedule(Tail(queue), ev)

\* "while self.event_queue and self.event_queue[0].time_us < target_time_us"
DueInclusive(time_us, target) == time_us <= target
Due(time_us, target) == time_us < target

\* SensorNode.handle_init and GatewayNode.handle_init
SensorInit ==
    [queue |-> <<[time_us |-> SampleIntervalUs, type |-> "SAMPLE", payload |-> NonePayload]>>,
     current_time_us |-> 0, inbox |-> <<>>, samples |-> <<>>, processed |-> <<>>,
     messages_received |-> 0]

GatewayInit ==
    [queue |-> <<[time_us |-> AggregateIntervalUs, type |-> "AGGREGATE",
                  payload |-> NonePayload]>>,
     current_time_us |-> 0, inbox |-> <<>>, samples |-> <<>>, processed |-> <<>>,
     messages_received |-> 0]

\* SensorNode.handle_advance, the loop: pop every event due before the
\* target; a SAMPLE logs a sample row, schedules the next SAMPLE one interval
\* later and emits a TRANSMIT to the gateway
RECURSIVE SensorProcess(_, _, _)
SensorProcess(st, target, out) ==
    IF st.queue = <<>> \/ ~Due(Head(st.queue).time_us, target)
    THEN [st |-> [st EXCEPT !.current_time_us = target], out |-> out]
    ELSE LET event == Head(st.queue)
             popped == [st EXCEPT !.queue = Tail(@), !.current_time_us = event.time_us]
         IN  IF event.type = "SAMPLE"
             THEN SensorProcess(
                      [popped EXCEPT
                          !.samples = Append(@, event.time_us),
                          !.queue = Schedule(@, [time_us |-> event.time_us + SampleIntervalUs,
                                                 type |-> "SAMPLE",
                                                 payload |-> NonePayload])],
                      target,
                      Append(out, [time_us |-> event.time_us, type |-> "TRANSMIT",
                                   src |-> SensorId, dst |-> GatewayId,
                                   payload |-> Len(st.samples) + 1, size_bytes |-> 64]))
             ELSE SensorProcess(popped, target, out)

\* the incoming events of the sensor go into its queue as they are
RECURSIVE PushAll(_, _)
PushAll(queue, evs) ==
    IF evs = <<>> THEN queue
    ELSE PushAll(Schedule(queue, [time_us |-> Head(evs).time_us, type |-> Head(evs).type,
                                  payload |-> Head(evs).payload]),
                 Tail(evs))

SensorHandleAdvance(st, target) ==
    SensorProcess([st EXCEPT !.queue = PushAll(@, st.inbox), !.inbox = <<>>], target, <<>>)

\* GatewayNode.handle_advance, the incoming events: a TRANSMIT schedules a
\* PROCESS after the processing delay, anything else is ignored
RECURSIVE GatewayReceive(_, _)
GatewayReceive(st, evs) ==
    IF evs = <<>> THEN st
    ELSE GatewayReceive(
             IF Head(evs).type = "TRANSMIT"
             THEN [st EXCEPT
                      !.queue = Schedule(@, [time_us |-> Head(evs).time_us + ProcessDelayUs,
                                             type |-> "PROCESS",
                                             payload |-> Head(evs).payload]),
                      !.messages_received = @ + 1]
             ELSE st,
             Tail(evs))

\* GatewayNode.handle_advance, the loop: a PROCESS logs a process row, an
\* AGGREGATE schedules the next one; the gateway emits nothing
RECURSIVE GatewayProcess(_, _)
GatewayProcess(st, target) ==
    IF st.queue = <<>> \/ ~Due(Head(st.queue).time_us, target)
    THEN [st |-> [st EXCEPT !.current_time_us = target], out |-> <<>>]
    ELSE LET event == Head(st.queue)
             popped == [st EXCEPT !.queue = Tail(@), !.current_time_us = event.time_us]
         IN  IF event.type = "PROCESS"
             THEN GatewayProcess(
                      [popped EXCEPT !.processed =
                          Append(@, [time_us |-> event.time_us, sample_id |-> event.payload])],
                      target)
             ELSE IF event.type = "AGGREGATE"
             THEN GatewayProcess(
                      [popped EXCEPT !.queue =
                          Schedule(@, [time_us |-> event.time_us + AggregateIntervalUs,
                                       type |-> "AGGREGATE", payload |-> NonePayload])],
                      target)
             ELSE GatewayProcess(popped, target)

GatewayHandleAdvance(st, target) ==
    GatewayProcess(GatewayReceive([st EXCEPT !.inbox = <<>>], st.inbox), target)

HandleAdvance(n, st, target) ==
    IF n = SensorId THEN SensorHandleAdvance(st, target) ELSE GatewayHandleAdvance(st, target)

\* NodeConnection.wait_done: Event(**e) for every entry of the DONE line
RECURSIVE EventsOf(_)
EventsOf(out) ==
    IF out = <<>> THEN <<>> ELSE <<EventInit(Head(out)).event>> \o EventsOf(Tail(out))

\* both node processes started, connect_all and initialize_all returned,
\* run(duration_us) is called
InitS1 ==
    /\ config = DirectConfig
    /\ seed \in 0..MaxSeed
    /\ net = LatencyInit(config)
    /\ last_op = NoOp
    /\ offered = <<>>
    /\ n_routed = 0
    /\ net_hist = NoNetHist(config)
    /\ time_quantum_us = S1QuantumUs
    /\ duration_us = S1DurationUs
    /\ current_time_us = 0
    /\ pending_events = [n \in NodeIds |-> <<>>]
    /\ adapters = [n \in NodeIds |-> [NewAdapter EXCEPT !.registered = TRUE,
                                                        !.connected = TRUE,
                                                        !.initialized = TRUE,
                                                        !.init_reply = "READY"]]
    /\ pc = "loop"
    /\ target_time_us = 0
    /\ idx = 0
    /\ all_events = <<>>
    /\ run_raised = NotRaised
    /\ hist = NoHist
    /\ lpc = "unused"
    /\ scenario = NoScenario
    /\ LauncherInit
    /\ adapter = NoAdapter
    /\ node_state = [n \in NodeIds |-> IF n = SensorId THEN SensorInit ELSE GatewayInit]

\* Phase 1, one node: the ADVANCE line and the inbox reach the node
S1SendAdvance ==
    /\ pc = "fanout"
    /\ node_state' = [node_state EXCEPT ![NodeOrder[idx]].inbox = pending_events[NodeOrder[idx]]]
    /\ SendAdvanceBody

\* Phase 2, one node: the node has handled the ADVANCE and answers DONE
\* with its output events
S1WaitDone ==
    /\ pc = "join"
    /\ LET n == NodeOrder[idx]
           r == HandleAdvance(n, node_state[n], target_time_us)
       IN  /\ node_state' = [node_state EXCEPT ![n] = r.st]
           /\ WaitDoneBody(EventsOf(r.out))

NextS1 ==
    \/ LoopTest
    \/ S1SendAdvance
    \/ S1WaitDone
    \/ RouteOne
    \/ AdvanceNetwork
    \/ SendShutdown

SpecS1 == InitS1 /\ [][NextS1]_vars

(***************************************************************************)
(* Properties of Coordinator.run                                           *)
(***************************************************************************)
\* C1: a run that completes ends with current_time_us = duration_us, also
\* when duration_us is not a multiple of the quantum, and current_time_us
\* never exceeds duration_us on the way.
RunEndsAtDuration ==
    /\ current_time_us <= duration_us
    /\ pc = "returned" => current_time_us = duration_us

RunCompletedOffQuantum ==
    /\ pc = "returned"
    /\ duration_us > time_quantum_us
    /\ duration_us % time_quantum_us # 0
    /\ current_time_us = duration_us

\* the target chosen before target t (0 before the first)
PrevTarget(t) ==
    LET before == {x \in Range(hist.targets) : x < t}
    IN  IF before = {} THEN 0 ELSE CHOOSE x \in before : \A y \in before : y <= x

\* C2: in every quantum send_advance goes to the nodes in registration order
\* with the quantum's one target, and no node is sent a target before every
\* node has returned from wait_done for the target before it.
Lockstep ==
    /\ \A i \in 1..Len(hist.handed) :
          /\ hist.handed[i].target = hist.targets[((i - 1) \div NumNodes) + 1]
          /\ hist.handed[i].node = NodeOrder[((i - 1) % NumNodes) + 1]
    /\ \A n, k \in NodeIds :
          adapters[n].last_advance # 0 =>
              adapters[k].last_done >= PrevTarget(adapters[n].last_advance)

SecondQuantumFanOut ==
    /\ pc = "fanout"
    /\ idx = 2
    /\ Len(hist.targets) = 2
    /\ adapters[NodeOrder[1]].last_advance > adapters[NodeOrder[2]].last_advance

Ids == 1..Len(hist.produced)
RoutedCount(id) == Cardinality({i \in 1..Len(hist.routed) : hist.routed[i] = id})
DepositCount(id) == Cardinality({i \in 1..Len(hist.deposited) : hist.deposited[i].id = id})
HandedSlots(id) ==
    {<<i, j>> \in (1..Len(hist.handed)) \X (1..MaxEvents) :
        j <= Len(hist.handed[i].inbox) /\ hist.handed[i].inbox[j].payload = id}
HandedCount(id) == Cardinality(HandedSlots(id))
InboxSlots(id) ==
    {<<n, j>> \in NodeIds \X (1..MaxEvents) :
        j <= Len(pending_events[n]) /\ pending_events[n][j].payload = id}
InboxCount(id) == Cardinality(InboxSlots(id))

\* C3 as stated: once run has returned, every event a wait_done returned
\* was passed to route_message exactly once, deposited at most once and
\* handed to exactly one send_advance.
EveryEventHandedExactlyOnce ==
    pc = "returned" =>
        \A id \in Ids : RoutedCount(id) = 1 /\ DepositCount(id) <= 1 /\ HandedCount(id) = 1

\* C3 amended: every event a wait_done returned is passed to route_message
\* at most once (exactly once by the time run returns), is deposited in at
\* most one inbox at most once, and is handed to at most one send_advance,
\* that of its destination, after which no inbox contains it.
NoEventDuplicated ==
    \A id \in Ids :
        /\ RoutedCount(id) <= 1
        /\ pc = "returned" => RoutedCount(id) = 1
        /\ DepositCount(id) <= 1
        /\ HandedCount(id) + InboxCount(id) <= DepositCount(id)
        /\ \A s \in HandedSlots(id) : hist.handed[s[1]].node = hist.produced[id].dst
        /\ \A s \in InboxSlots(id) : s[1] = hist.produced[id].dst

EventHandedOver ==
    \E id \in Ids : HandedCount(id) = 1 /\ InboxCount(id) = 0 /\ RoutedCount(id) = 1

\* C9: when send_advance or wait_done of an adapter raises, send_shutdown
\* has been attempted on every other adapter by the time the error leaves
\* run.
ShutdownOthersOnError ==
    (pc = "raised" /\ run_raised[1] \in {"send_advance", "wait_done"}) =>
        \A n \in NodeIds \ {run_raised[2]} : adapters[n].shutdowns >= 1

(***************************************************************************)
(* Properties of SimulationLauncher.run                                    *)
(***************************************************************************)
\* C10: after SimulationLauncher.run has returned, on success or on any
\* failure, send_shutdown has been issued to every adapter registered with
\* the coordinator and no process started for the run is alive.
NoOrphanTeardown ==
    sim_result.returned =>
        /\ \A n \in NodeIds :
              /\ adapters[n].registered => adapters[n].shutdowns >= 1
              /\ ~adapters[n].alive
        /\ \A i \in 1..Len(processes) : ~processes[i].running

\* C11: SimulationLauncher.run lets no error escape. Once it has returned,
\* shutdown() has been executed; if an exception was raised by validation,
\* launch, bring-up or coordinator.run the result has success = false,
\* virtual_time_sec = 0 and the message of that exception; otherwise
\* coordinator.run completed and the result has success = true with
\* virtual_time_sec equal to the scenario duration.
RunReturnsResult ==
    /\ exc # NoExc => lpc \in {"except", "finally", "returned"}
    /\ (lpc = "run" /\ pc = "raised") => ENABLED RunFailed
    /\ sim_result.returned =>
          /\ shutdown_calls >= 1
          /\ lpc = "returned"
          /\ exc # NoExc =>
                /\ ~sim_result.success
                /\ sim_result.virtual_time_sec = 0
                /\ sim_result.error_message = exc
          /\ exc = NoExc =>
                /\ sim_result.success
                /\ sim_result.virtual_time_sec = duration_us
                /\ pc = "returned"

FailedRunReturned ==
    /\ sim_result.returned
    /\ exc.type = "run"
    /\ current_time_us > 0
    /\ ~sim_result.success

InitErrorStopsLaunch ==
    \A n \in NodeIds :
        adapters[n].init_reply \notin {None, "READY"} =>
            /\ exc.type = "send_init"
            /\ pc = "not_called"
            /\ hist.handed = <<>>
            /\ \A m \in NodeIds : adapters[m].last_advance = 0
            /\ sim_result.returned => ~sim_result.success

InitErrorReturned ==
    /\ sim_result.returned
    /\ adapters[NodeOrder[1]].init_reply = "READY"
    /\ adapters[NodeOrder[2]].init_reply = "ERROR bad"

\* the scenario names a file that does not exist
SomeFileMissing(sc) ==
    \/ ~sc.ml_model_exists
    \/ \E n \in NodeIds : /\ sc.implementation[n] = "renode_inprocess"
                          /\ (~sc.firmware_exists \/ ~sc.platform_exists)

\* C14: when the scenario names a missing firmware, platform or ML model
\* file, launch fails once with every such error in its message, and no
\* docker command is run, no container recorded, no coordinator created, no
\* adapter registered or connected and no process started, before or after.
ValidationBeforeSideEffects ==
    SomeFileMissing(scenario) =>
        /\ docker_probes = 0
        /\ docker_containers = <<>>
        /\ coordinator = None
        /\ pc = "not_called"
        /\ \A n \in NodeIds :
              ~adapters[n].registered /\ ~adapters[n].connected /\ ~adapters[n].alive
        /\ lpc \in {"launch", "except", "finally", "returned"}
        /\ lpc # "launch" =>
              /\ exc.type = "validate_scenario"
              /\ ~scenario.ml_model_exists => <<"ml_inference", "model_path">> \in exc.errors
              /\ \A n \in NodeIds :
                    scenario.implementation[n] = "renode_inprocess" =>
                        /\ ~scenario.firmware_exists => <<n, "firmware">> \in exc.errors
                        /\ ~scenario.platform_exists => <<n, "platform">> \in exc.errors

ValidationFailedWithSeveralErrors ==
    /\ sim_result.returned
    /\ exc.type = "validate_scenario"
    /\ Cardinality(exc.errors) >= 3

(***************************************************************************)
(* Properties of the node adapters                                         *)
(***************************************************************************)
\* C15: for every adapter kind and in every adapter state (never
\* connected, connected, peer gone, already shut down) send_shutdown raises
\* nothing, and a send_shutdown call after the first performs no further
\* action on the node.
SendShutdownSafe ==
    /\ adapter.last_call.op = "send_shutdown" => adapter.last_call.raised = "none"
    /\ \A i \in 1..Len(adapter.log) : adapter.log[i].call = 1

(***************************************************************************)
(* Further properties of Coordinator.run                                   *)
(***************************************************************************)
\* the event is addressed to nobody or to a node that is not registered
Undeliverable(ev) == ev.dst \notin NodeIds

\* C16: an event whose dst is absent or not a registered node id is passed
\* to the network model (LatencyNetworkModel counts it in packets_sent), is
\* never appended to an inbox, and routing it does not make the run fail.
UndeliverableCountedNotFatal ==
    /\ config.model = "latency" => net.metrics.packets_sent = Len(hist.routed)
    /\ pc = "returned" => \A id \in Ids : RoutedCount(id) = 1
    /\ \A id \in Ids :
          Undeliverable(hist.produced[id]) =>
              /\ DepositCount(id) = 0
              /\ InboxCount(id) = 0
              /\ ~(/\ pc = "raised"
                   /\ run_raised[1] = "route_message"
                   /\ hist.routed[Len(hist.routed)] = id)

\* C17: with DirectNetworkModel the events in an inbox are those of the
\* quantum just merged, in node-registration order of their senders, the
\* events of one sender in the order of its outbox.
InboxInMergeOrder ==
    config.model = "direct" =>
        \A n \in NodeIds :
            /\ \A i, j \in 1..Len(pending_events[n]) :
                  i < j =>
                      LET a == pending_events[n][i]
                          b == pending_events[n][j]
                      IN  \/ NodeIndex(a.src) < NodeIndex(b.src)
                          \/ a.src = b.src /\ a.payload < b.payload
            /\ pc = "loop" =>
                  Len(pending_events[n]) =
                      Cardinality({id \in Ids : /\ hist.produced[id].dst = n
                                                /\ hist.produced[id].time_us = current_time_us})

TwoSendersOneInbox ==
    /\ config.model = "direct"
    /\ pc = "loop"
    /\ \E n \in NodeIds :
          /\ Len(pending_events[n]) = 2
          /\ pending_events[n][1].src = NodeOrder[1]
          /\ pending_events[n][2].src = NodeOrder[2]

\* the targets sent to each adapter are strictly increasing
TargetsStrictlyIncreasing(handed) ==
    \A i, j \in 1..Len(handed) :
        (i < j /\ handed[i].node = handed[j].node) => handed[i].target < handed[j].target

\* C18: within a run current_time_us never decreases, and the targets of
\* the successive send_advance calls of each adapter are strictly increasing.
ClockMonotonic ==
    [][/\ current_time_us' >= current_time_us
       /\ TargetsStrictlyIncreasing(hist'.handed)]_vars

ThreeQuantaRun ==
    /\ pc = "returned"
    /\ Len(hist.targets) = 3
    /\ Len(hist.handed) = 3 * NumNodes
    /\ current_time_us = 3

(***************************************************************************)
(* Properties of the socket run with sensor and gateway                    *)
(***************************************************************************)
\* C19 as stated: in the run with time_quantum_us = 1000 and duration 2 s
\* the sensor has taken exactly 2 samples, at 1 s and at 2 s, and the gateway
\* has processed the two transmissions, when run returns.
S1TwoSamples ==
    pc = "returned" =>
        /\ node_state[SensorId].samples = <<SampleIntervalUs, 2 * SampleIntervalUs>>
        /\ Len(node_state[GatewayId].processed) = 2

\* C19 amended: in that run the sensor takes exactly 1 sample, at 1 s; the
\* SAMPLE scheduled at 2 s is still queued when run returns, because a node
\* handles only events with time_us < target and the last target is 2 s;
\* the gateway processes the one transmission, 100 us after the sample.
S1OneSample ==
    /\ Len(node_state[SensorId].samples) <= 1
    /\ \A i \in 1..Len(node_state[SensorId].samples) : node_state[SensorId].samples[i] = SampleIntervalUs
    /\ pc = "returned" =>
          /\ node_state[SensorId].samples = <<SampleIntervalUs>>
          /\ \E i \in 1..Len(node_state[SensorId].queue) :
                /\ node_state[SensorId].queue[i].type = "SAMPLE"
                /\ node_state[SensorId].queue[i].time_us = 2 * SampleIntervalUs
          /\ node_state[GatewayId].processed =
                <<[time_us |-> SampleIntervalUs + ProcessDelayUs, sample_id |-> 1]>>

S1RunCompleted ==
    /\ pc = "returned"
    /\ current_time_us = S1DurationUs
    /\ node_state[SensorId].current_time_us = S1DurationUs
    /\ node_state[GatewayId].messages_received = 1
    /\ \A n \in NodeIds : adapters[n].shutdowns = 1

(***************************************************************************)
(* Further properties of the network model                                 *)
(***************************************************************************)
\* e is the copy LatencyNetworkModel makes of the routed event ev, due at
\* time due: type, src, dst, payload and size_bytes unchanged, time_us the
\* delivery time, network_metadata with latency_us, sent_time_us, loss_rate
\* and delivery_time_us = sent_time_us + latency_us
IsDelayedCopy(e, ev, due) ==
    /\ e.type = ev.type
    /\ e.src = ev.src
    /\ e.dst = ev.dst
    /\ e.payload = ev.payload
    /\ e.size_bytes = ev.size_bytes
    /\ e.time_us = due
    /\ "network_metadata" \in DOMAIN e
    /\ {"latency_us", "sent_time_us", "loss_rate", "delivery_time_us"}
           \subseteq DOMAIN e.network_metadata
    /\ e.network_metadata.sent_time_us = ev.time_us
    /\ e.network_metadata.delivery_time_us = due
    /\ e.network_metadata.delivery_time_us =
           e.network_metadata.sent_time_us + e.network_metadata.latency_us

DirectModelStateless ==
    config.model = "direct" =>
        /\ net = LatencyInit(config)
        /\ last_op.raised = "none"
        /\ last_op.op = "route_message" => last_op.result = <<last_op.event>>
        /\ last_op.op = "advance_to" => last_op.result = <<>>
        /\ last_op.op = "get_metrics" => last_op.snapshot = NetworkMetrics

\* advance_to was called with a target below the one of the call before it,
\* on a direct model that has routed events
DirectAdvancedBackAfterRouting ==
    /\ config.model = "direct"
    /\ n_routed >= 2
    /\ last_op.op = "advance_to"
    /\ last_op.went_back

\* the payloads of a list of events
Payloads(evs) == {evs[i].payload : i \in 1..Len(evs)}

\* the events route_message accepted for delayed delivery, not returned yet,
\* that are due at target
DueBy(off, target) == {off[i].event.payload : i \in {j \in 1..Len(off) : off[j].due <= target}}

Lossless(cfg) ==
    /\ cfg.default_loss_rate = 0
    /\ \A i \in 1..Len(cfg.links) : cfg.links[i].loss_rate = 0

\* C23: in a LatencyNetworkModel whose loss rates are all 0, packets_dropped
\* stays 0, and after an advance_to call whose target is at or beyond the
\* delivery time of every routed event packets_delivered = packets_sent.
LosslessDeliversAll ==
    (config.model = "latency" /\ Lossless(config)) =>
        /\ net.metrics.packets_dropped = 0
        /\ (last_op.op = "advance_to"
               /\ \A i \in 1..Len(offered) : offered[i].due <= last_op.target)
              => net.metrics.packets_delivered = net.metrics.packets_sent

\* C24: reset() restores the initial state of a LatencyNetworkModel: the
\* event queue is empty, the metrics are zero and every random stream is at
\* its origin; and the calls made after it return, raise, drop and deliver
\* what the same calls do on a model newly constructed with the same
\* configuration and seed.
ReplayAfterReset ==
    config.model = "latency" =>
        /\ last_op.op = "reset" =>
              /\ net.event_queue = <<>>
              /\ net.current_time_us = 0
              /\ net.metrics = NetworkMetrics
              /\ \A k \in DOMAIN net.rng_pos : net.rng_pos[k] = 0
        /\ net = net_hist.fresh.st
        /\ last_op.op \in {"route_message", "advance_to"} =>
              /\ last_op.result = net_hist.fresh.result
              /\ last_op.raised = net_hist.fresh.raised

\* a model that routed events and drew from its streams was reset, and
\* events were routed again, one of them dropped
ReplayedAfterReset ==
    /\ config.model = "latency"
    /\ config.default_loss_rate \notin {0, LossScale}
    /\ last_op.op = "route_message"
    /\ net.metrics.packets_sent >= 2
    /\ n_routed > net.metrics.packets_sent
    /\ net.metrics.packets_dropped >= 1

Ceil(a, b) == (a + b - 1) \div b

\* the i-th quantum has target min(i * q, duration): every quantum advances
\* the clock by q, the last one by what remains; there are never more than
\* ceil(duration / q) quanta, and exactly that many once the loop is left
QuantaExact ==
    LET n == Ceil(duration_us, time_quantum_us)
    IN  /\ Len(hist.targets) <= n
        /\ \A i \in 1..Len(hist.targets) :
              hist.targets[i] = Min2(i * time_quantum_us, duration_us)
        /\ pc = "loop" =>
              current_time_us = Min2(Len(hist.targets) * time_quantum_us, duration_us)
        /\ pc \in {"shutdown", "returned"} => Len(hist.targets) = n

\* the calls run makes on the adapters
AdapterCalls == {"send_advance", "wait_done", "send_shutdown"}

\* C26: run(duration_us), started at clock 0 with quantum q > 0, ends, and
\* unless an adapter call raises it returns after exactly
\* ceil(duration_us / q) quanta; every quantum but the last advances the
\* clock by q and the last one by the remainder.
RunTerminatesInCeilQuanta ==
    /\ []QuantaExact
    /\ [](pc = "raised" => run_raised[1] \in AdapterCalls)
    /\ <>(pc \in {"returned", "raised"})

\* send_advance or wait_done raised in the quantum with target target_time_us
QuantumFailed == pc = "raised" /\ run_raised[1] \in {"send_advance", "wait_done"}

\* C27: when an adapter raises during the quantum with target T,
\* current_time_us keeps the value the last completed quantum committed
\* (below T, and not rolled back), and from then on nothing is handed to a
\* node, routed or deposited in an inbox: the inboxes and the outputs of the
\* failed quantum reach no node.
FailedQuantumDiscarded ==
    /\ [](QuantumFailed =>
            /\ current_time_us = PrevTarget(target_time_us)
            /\ current_time_us < target_time_us)
    /\ [][QuantumFailed =>
            /\ current_time_us' = current_time_us
            /\ hist'.handed = hist.handed
            /\ hist'.routed = hist.routed
            /\ hist'.deposited = hist.deposited]_vars

\* wait_done raised in a later quantum after the nodes were handed a
\* non-empty inbox, and SimulationLauncher.run has returned
FailedAfterHandingInbox ==
    /\ lpc = "returned"
    /\ QuantumFailed
    /\ run_raised[1] = "wait_done"
    /\ current_time_us > 0
    /\ \E i \in 1..Len(hist.handed) :
          hist.handed[i].target = target_time_us /\ hist.handed[i].inbox # <<>>

(***************************************************************************)
(* RenodeNode (sim/device/renode_node.py) behind an InProcessNodeAdapter   *)
(* (coordinator.py)                                                        *)
(***************************************************************************)
\* The largest target a caller passes to send_advance.
MaxTarget == 2

\* Python's None for a dict-valued field (the payload of an Event).
PayloadNone == [is_none |-> TRUE]

\* UART text is a sequence of characters: the newline, a non-blank
\* character that is no brace, and the text of a JSON object, kept as two
\* characters: its opening brace with the first part of its members, and the
\* rest with its closing brace.
Nl == [kind |-> "nl"]
Junk == [kind |-> "text"]
Json(data) == <<[kind |-> "open", data |-> data], [kind |-> "close", data |-> data]>>

\* The JSON objects the firmware prints: one with its own type and time,
\* one with neither but with a destination.
SampleData == [type |-> "SAMPLE", value |-> 7, time |-> 1]
CommandData == [value |-> 8, dst |-> "n2"]

\* What the firmware writes to the UART log file while the emulation runs
\* for one RunFor command: nothing, a complete line, a line without its
\* newline, the missing newline, a console line followed by the start of a
\* JSON line, and a line holding two objects.
UartChunks ==
    { <<>>,
      Json(SampleData) \o <<Nl>>,
      Json(CommandData),
      <<Nl>>,
      <<Junk, Nl>> \o Json(SampleData),
      Json(SampleData) \o Json(CommandData) \o <<Nl>> }

\* The inboxes a caller passes to send_advance.
Inboxes ==
    { <<>>,
      <<MkEvent(0, "n2", "n1", 1)>>,
      <<MkEvent(0, "n2", "n1", 1), MkEvent(1, "n2", "n1", 2)>> }

\* dict.get(key, default)
DictGet(data, key, default) == IF key \in DOMAIN data THEN data[key] ELSE default

\* str.split('\n'): the pieces between the newlines, the last one being the
\* text after the last newline
RECURSIVE SplitLines(_)
SplitLines(text) ==
    IF \A i \in 1..Len(text) : text[i] # Nl THEN <<text>>
    ELSE LET i == CHOOSE k \in 1..Len(text) :
                      text[k] = Nl /\ \A j \in 1..(k - 1) : text[j] # Nl
         IN  <<SubSeq(text, 1, i - 1)>> \o SplitLines(SubSeq(text, i + 1, Len(text)))

\* re.search(r'\{.*\}', line).group(): the pattern is greedy, so the match
\* runs from the first opening brace to the last closing brace after it; <<>>
\* when there is no match.
JsonOf(line) ==
    LET opens == {i \in 1..Len(line) : line[i].kind = "open"}
        first == CHOOSE i \in opens : \A j \in opens : i <= j
        closes == {i \in first..Len(line) : line[i].kind = "close"}
        last == CHOOSE i \in closes : \A j \in closes : j <= i
    IN  IF opens = {} THEN <<>>
        ELSE IF closes = {} THEN <<>>
        ELSE SubSeq(line, first, last)

\* json.loads(text) returns: text is one whole object
Loads(text) ==
    /\ Len(text) = Len(Json(SampleData))
    /\ text = Json(text[1].data)

\* One complete line of _parse_uart_output: an empty line and a line without
\* a match are skipped, a line whose match is one object gives an event,
\* and for any other match json.loads raises JSONDecodeError, which is
\* caught and the line skipped.  size_bytes is the length of the line.
ParseLine(node_id, line, current_time) ==
    IF ~Loads(JsonOf(line)) THEN <<>>
    ELSE LET data == JsonOf(line)[1].data
         IN  << [type |-> DictGet(data, "type", "UART"),
                 time_us |-> DictGet(data, "time", current_time),
                 src |-> node_id,
                 dst |-> DictGet(data, "dst", None),
                 payload |-> data,
                 size_bytes |-> Len(line)] >>

RECURSIVE ParseLines(_, _, _)
ParseLines(node_id, lines, current_time) ==
    IF lines = <<>> THEN <<>>
    ELSE ParseLine(node_id, Head(lines), current_time)
             \o ParseLines(node_id, Tail(lines), current_time)

\* 'self.uart_buffer = lines[-1]'
BufferDropped(lines) == <<>>

BufferKept(lines) == lines[Len(lines)]

\* RenodeNode._parse_uart_output
ParseUartOutput(st, uart_text, current_time) ==
    LET lines == SplitLines(st.uart_buffer \o uart_text)
    IN  [st |-> [st EXCEPT !.uart_buffer = BufferKept(lines)],
         events |-> ParseLines(st.node_id, SubSeq(lines, 1, Len(lines) - 1),
                               current_time)]

\* RenodeNode._read_log_file: the text of the log file from the stored
\* offset to its end, the offset moving to the end
ReadLogFile(st) ==
    [st |-> [st EXCEPT !.log_file_position = Len(st.log_file)],
     text |-> SubSeq(st.log_file, st.log_file_position + 1, Len(st.log_file))]

\* RenodeNode after __init__ and start(): the monitor is connected, no
\* command was sent, the log file is empty
RenodeInit(node_id) ==
    [node_id |-> node_id, current_time_us |-> 0, uart_buffer |-> <<>>,
     log_file_position |-> 0, log_file |-> <<>>, commands |-> <<>>]

\* the first test of RenodeNode.advance
NeverBackwards(cur, target) == FALSE

IsBackwards(cur, target) == target < cur

\* The outcomes of _send_command: the prompt is received, the response
\* times out, the monitor socket is closed.
MonitorOutcomes == {"ok", "RenodeTimeoutError", "RenodeConnectionError"}

\* RenodeNode.advance(target_time_us), the monitor answering with outcome
\* and the firmware writing written to the log file while the emulation
\* runs
RenodeAdvance(st, target, outcome, written) ==
    IF IsBackwards(st.current_time_us, target)
    THEN [st |-> st, events |-> <<>>, raised |-> "ValueError"]
    ELSE IF target = st.current_time_us
    THEN [st |-> st, events |-> <<>>, raised |-> "none"]
    ELSE LET sent == [st EXCEPT !.commands = Append(@, target - st.current_time_us)]
         IN  IF outcome # "ok"
             THEN [st |-> sent, events |-> <<>>, raised |-> outcome]
             ELSE LET ran == [sent EXCEPT !.log_file = @ \o written]
                      rd == ReadLogFile(ran)
                      parsed == ParseUartOutput(rd.st, rd.text, target)
                  IN  [st |-> [parsed.st EXCEPT !.current_time_us = target],
                       events |-> parsed.events,
                       raised |-> "none"]

\* hasattr(event, name) for an event of the wrapped node
HasAttr(event, name) == name \in DOMAIN event

\* The coordinator Event that wait_done builds from one event of the node.
ToCoordinatorEvent(node_id, event) ==
    [time_us |-> event.time_us,
     type |-> event.type,
     src |-> node_id,
     dst |-> None,
     payload |-> IF HasAttr(event, "value") THEN [value |-> event.value]
                 ELSE PayloadNone,
     size_bytes |-> 64]

NoCall == [op |-> "none", target |-> 0, inbox |-> <<>>, raised |-> "none",
           produced |-> <<>>, result |-> <<>>]

\* InProcessNodeAdapter.__init__ followed by connect(): calls counts the
\* calls made on the adapter, last_call is the last one with what the node
\* returned (produced) and what the adapter returned (result), handed the
\* events the adapter gave to the node since the last send_advance.
InProcessInit(node_id) ==
    [node_id |-> node_id, current_time_us |-> 0, calls |-> 0,
     handed |-> <<>>, last_call |-> NoCall]

InitInProcess ==
    /\ config = DirectConfig
    /\ seed = 0
    /\ net = LatencyInit(config)
    /\ last_op = NoOp
    /\ offered = <<>>
    /\ n_routed = 0
    /\ net_hist = NoNetHist(config)
    /\ CoordinatorInit(1)
    /\ duration_us = 0
    /\ pc = "unused"
    /\ target_time_us = 0
    /\ idx = 0
    /\ all_events = <<>>
    /\ run_raised = NotRaised
    /\ hist = NoHist
    /\ lpc = "unused"
    /\ scenario = NoScenario
    /\ LauncherInit
    /\ adapter = InProcessInit("n1")
    /\ node_state = RenodeInit("n1")

\* InProcessNodeAdapter.send_advance: the target is stored, pending_events
\* is not used
InProcessSendAdvance(target, inbox) ==
    /\ adapter.calls < MaxAdapterCalls
    /\ adapter' = [adapter EXCEPT
                     !.current_time_us = target,
                     !.calls = @ + 1,
                     !.handed = <<>>,
                     !.last_call = [NoCall EXCEPT !.op = "send_advance",
                                                  !.target = target,
                                                  !.inbox = inbox]]
    /\ UNCHANGED <<netVars, coordVars, launchVars, node_state>>

\* InProcessNodeAdapter.wait_done: node.advance(self.current_time_us), whose
\* exception propagates, then the conversion of the events
InProcessWaitDone(outcome, written) ==
    /\ adapter.calls < MaxAdapterCalls
    /\ LET r == RenodeAdvance(node_state, adapter.current_time_us, outcome, written)
       IN  /\ node_state' = r.st
           /\ adapter' = [adapter EXCEPT
                            !.calls = @ + 1,
                            !.last_call =
                                [NoCall EXCEPT
                                   !.op = "wait_done",
                                   !.target = adapter.current_time_us,
                                   !.inbox = IF adapter.last_call.op = "send_advance"
                                             THEN adapter.last_call.inbox ELSE <<>>,
                                   !.raised = r.raised,
                                   !.produced = r.events,
                                   !.result = [i \in 1..Len(r.events) |->
                                       ToCoordinatorEvent(adapter.node_id, r.events[i])]]]
    /\ UNCHANGED <<netVars, coordVars, launchVars>>

NextInProcess ==
    \/ \E target \in 0..MaxTarget, inbox \in Inboxes :
          InProcessSendAdvance(target, inbox)
    \/ \E outcome \in MonitorOutcomes, written \in UartChunks :
          InProcessWaitDone(outcome, written)

SpecInProcess == InitInProcess /\ [][NextInProcess]_vars

(***************************************************************************)
(* Properties of RenodeNode behind the in-process adapter                  *)
(***************************************************************************)
\* the step is a wait_done whose node.advance is asked to go backwards
BackwardsWaitDone ==
    /\ adapter'.calls = adapter.calls + 1
    /\ adapter'.last_call.op = "wait_done"
    /\ adapter.current_time_us < node_state.current_time_us

\* C28: RenodeNode.advance(t) with t < current_time_us raises before
\* anything else happens: no command is sent to the monitor, and
\* current_time_us, the UART line buffer and the log-file offset keep their
\* values; wait_done of the in-process adapter surfaces the error.
BackwardsAdvanceRaisesFirst ==
    [][BackwardsWaitDone =>
          /\ adapter'.last_call.raised = "ValueError"
          /\ adapter'.last_call.result = <<>>
          /\ node_state'.commands = node_state.commands
          /\ node_state'.current_time_us = node_state.current_time_us
          /\ node_state'.uart_buffer = node_state.uart_buffer
          /\ node_state'.log_file_position = node_state.log_file_position
          /\ node_state'.log_file = node_state.log_file]_vars

\* a backwards advance was refused on a node that had run, with a partial
\* line in its buffer
BackwardsAdvanceRefused ==
    /\ adapter.last_call.op = "wait_done"
    /\ adapter.last_call.raised = "ValueError"
    /\ adapter.last_call.target < node_state.current_time_us
    /\ node_state.commands # <<>>
    /\ node_state.uart_buffer # <<>>
    /\ node_state.log_file_position > 0

\* C29: send_advance(t, inbox) hands every inbox event to the wrapped node,
\* in inbox order and unchanged, before the node's advance(t) runs, the
\* events of one quantum replacing those of the previous one.
InboxHandedToNode ==
    adapter.last_call.op \in {"send_advance", "wait_done"}
        => adapter.handed = adapter.last_call.inbox

\* C30: wait_done calls the node's advance with the target stored by the
\* preceding send_advance and maps every produced event, in order, to a
\* coordinator Event with src the adapter's node_id, dst none, the node's
\* time and type, and the node event's payload.
WaitDoneMapsEvents ==
    (adapter.last_call.op = "wait_done" /\ adapter.last_call.raised = "none")
        => /\ adapter.last_call.target = adapter.current_time_us
           /\ node_state.current_time_us = adapter.current_time_us
           /\ Len(adapter.last_call.result) = Len(adapter.last_call.produced)
           /\ \A i \in 1..Len(adapter.last_call.produced) :
                 LET e == adapter.last_call.result[i]
                     n == adapter.last_call.produced[i]
                 IN  /\ e.src = adapter.node_id
                     /\ e.dst = None
                     /\ e.time_us = n.time_us
                     /\ e.type = n.type
                     /\ e.payload = n.payload

(***************************************************************************)
(* The stdin/stdout protocol of a container: the lines, the event codecs   *)
(* of both ends, and CoordinatorProtocolAdapter                            *)
(* (containers/protocol_adapter.py)                                        *)
(***************************************************************************)
\* The most lines fed to a container-side adapter.
MaxLines == 5

\* payload {} (the default of the container-side Event)
EmptyPayload == NonePayload - 1

\* A line of the protocol: its first word (EVENTS for a line holding only
\* JSON, GARBAGE for any other text), the target of ADVANCE, whether its
\* JSON text parses, and the parsed list.
Line(kind) == [kind |-> kind, target |-> 0, valid |-> TRUE, body |-> <<>>]
AdvanceLine(target) == [Line("ADVANCE") EXCEPT !.target = target]
EventsLine(body) == [Line("EVENTS") EXCEPT !.body = body]
MalformedEvents == [Line("EVENTS") EXCEPT !.valid = FALSE]
MalformedInit == [Line("INIT") EXCEPT !.valid = FALSE]

\* DockerProtocolAdapter.send_advance: the dict written for one event
EncodeStdio(event) ==
    [timestamp_us |-> event.time_us, event_type |-> event.type,
     source |-> event.src, destination |-> event.dst, payload |-> event.payload]

\* DockerProtocolAdapter.wait_done: the Event built from one dict
DecodeStdio(node_id, e) ==
    [time_us |-> IF "timestamp_us" \in DOMAIN e THEN e.timestamp_us ELSE 0,
     type |-> IF "event_type" \in DOMAIN e THEN e.event_type ELSE "unknown",
     src |-> IF "source" \in DOMAIN e THEN e.source ELSE node_id,
     dst |-> IF "destination" \in DOMAIN e THEN e.destination ELSE None,
     payload |-> IF "payload" \in DOMAIN e THEN e.payload ELSE NonePayload,
     size_bytes |-> 0]

\* NodeConnection.send_advance: asdict(event), and NodeConnection.wait_done:
\* Event(**e)
EncodeSocket(event) == event
DecodeSocket(e) == EventInit(e)

\* Event.from_dict of the container: KeyError without timestamp_us or
\* event_type
FromDictRaises(d) == ~({"timestamp_us", "event_type"} \subseteq DOMAIN d)

FromDict(d) ==
    [timestamp_us |-> d.timestamp_us, event_type |-> d.event_type,
     source |-> IF "source" \in DOMAIN d THEN d.source ELSE "",
     destination |-> IF "destination" \in DOMAIN d THEN d.destination ELSE "",
     payload |-> IF "payload" \in DOMAIN d THEN d.payload ELSE EmptyPayload]

\* Event.to_dict of the container
ToDict(e) ==
    [timestamp_us |-> e.timestamp_us, event_type |-> e.event_type,
     source |-> e.source, destination |-> e.destination, payload |-> e.payload]

MapSeq(s, Op(_)) == [i \in 1..Len(s) |-> Op(s[i])]

\* The service callbacks: one returns nothing, one returns its input, one
\* emits an event of its own at the target, one raises, one returns a list
\* whose element is not an Event (to_dict raises AttributeError).
Callbacks == {"empty", "echo", "emit", "raise", "bad"}

ServiceCallback(cb, current, target, input_events) ==
    IF cb = "echo" THEN input_events
    ELSE IF cb = "emit"
    THEN << [timestamp_us |-> target, event_type |-> "result", source |-> "svc",
             destination |-> "", payload |-> EmptyPayload] >>
    ELSE <<>>

\* CoordinatorProtocolAdapter after __init__, inside run(): awaiting is the
\* target of an ADVANCE whose events line has not been read yet, calls the
\* invocations of the service callback, out the lines written to stdout.
ContainerInit ==
    [current_time_us |-> 0, running |-> TRUE, awaiting |-> NoneInt,
     calls |-> <<>>, out |-> <<>>]

\* the handler of run(): the exception of a command is logged, ERROR is
\* written and the loop left
ContainerError(st) ==
    [st EXCEPT !.out = Append(@, Line("ERROR")), !.running = FALSE,
               !.awaiting = NoneInt]

\* the clock after _handle_advance called the service
ContainerClockKept(cur, target) == cur

ContainerClock(cur, target) == target

\* _handle_advance(target, events_json) with the service callback cb
_handle_advance(st, target, events_line, cb) ==
    LET parses == events_line.kind = "EVENTS" /\ events_line.valid
        input_events == IF parses THEN MapSeq(events_line.body, FromDict) ELSE <<>>
        called == [st EXCEPT
                     !.awaiting = NoneInt,
                     !.calls = Append(@, [current |-> st.current_time_us,
                                          target |-> target,
                                          inbox |-> input_events]),
                     !.current_time_us = ContainerClock(@, target)]
        output_events == ServiceCallback(cb, st.current_time_us, target, input_events)
    IN  IF parses /\ \E i \in 1..Len(events_line.body) : FromDictRaises(events_line.body[i])
        THEN ContainerError(st)
        ELSE IF cb = "bad" THEN ContainerError(called)
        ELSE [called EXCEPT
                !.out = @ \o <<Line("DONE"), EventsLine(MapSeq(output_events, ToDict))>>]

\* _handle_init
_handle_init(st, line) ==
    IF ~line.valid THEN ContainerError(st)
    ELSE [st EXCEPT !.current_time_us = 0, !.out = Append(@, Line("READY"))]

\* One line read from stdin: the events line of a pending ADVANCE, or a
\* command for _process_command.
_process_command(st, line, cb) ==
    IF st.awaiting # NoneInt THEN _handle_advance(st, st.awaiting, line, cb)
    ELSE IF line.kind = "INIT" THEN _handle_init(st, line)
    ELSE IF line.kind = "ADVANCE" THEN [st EXCEPT !.awaiting = line.target]
    ELSE IF line.kind = "SHUTDOWN" THEN [st EXCEPT !.running = FALSE]
    ELSE ContainerError(st)

\* The dicts of an events line: complete, without the optional keys, and
\* without a required key.
FullDict == EncodeStdio(MkEvent(0, "n2", "n1", 1))
ShortDict == [timestamp_us |-> 1, event_type |-> "msg"]
BadDict == [event_type |-> "msg"]

\* The lines fed to the container-side adapter taken alone.
ContainerInputs ==
    {Line("INIT"), MalformedInit, Line("SHUTDOWN"), Line("GARBAGE"),
     EventsLine(<<>>), EventsLine(<<FullDict, ShortDict>>), EventsLine(<<BadDict>>),
     MalformedEvents}
        \cup {AdvanceLine(t) : t \in 1..MaxTarget}

InitContainer ==
    /\ config = DirectConfig
    /\ seed = 0
    /\ net = LatencyInit(config)
    /\ last_op = NoOp
    /\ offered = <<>>
    /\ n_routed = 0
    /\ net_hist = NoNetHist(config)
    /\ CoordinatorInit(1)
    /\ duration_us = 0
    /\ pc = "unused"
    /\ target_time_us = 0
    /\ idx = 0
    /\ all_events = <<>>
    /\ run_raised = NotRaised
    /\ hist = NoHist
    /\ lpc = "unused"
    /\ scenario = NoScenario
    /\ LauncherInit
    /\ adapter = [fed |-> 0, line |-> Line("none"), cb |-> "empty"]
    /\ node_state = ContainerInit

\* run() reads one line from stdin and processes it
ContainerReadLine(line, cb) ==
    /\ node_state.running
    /\ adapter.fed < MaxLines
    /\ node_state.awaiting = NoneInt => cb = "empty"
    /\ adapter' = [fed |-> adapter.fed + 1, line |-> line, cb |-> cb]
    /\ node_state' = _process_command(node_state, line, cb)
    /\ UNCHANGED <<netVars, coordVars, launchVars>>

\* run() reads end of file: the coordinator closed stdin
ContainerReadEof ==
    /\ node_state.running
    /\ node_state.awaiting = NoneInt
    /\ adapter' = [adapter EXCEPT !.line = Line("EOF")]
    /\ node_state' = [node_state EXCEPT !.running = FALSE]
    /\ UNCHANGED <<netVars, coordVars, launchVars>>

NextContainer ==
    \/ \E line \in ContainerInputs, cb \in Callbacks : ContainerReadLine(line, cb)
    \/ ContainerReadEof

SpecContainer == InitContainer /\ [][NextContainer]_vars

(***************************************************************************)
(* Properties of the container-side adapter                                *)
(***************************************************************************)
\* the step reads a well-formed INIT
ReadsInit ==
    /\ adapter'.fed = adapter.fed + 1
    /\ node_state.awaiting = NoneInt
    /\ adapter'.line = Line("INIT")

\* the step reads the events line of ADVANCE: malformed JSON, or a list of
\* event dicts, the service returning events or raising
ReadsEvents ==
    /\ adapter'.fed = adapter.fed + 1
    /\ node_state.awaiting # NoneInt
    /\ adapter'.line.kind = "EVENTS"
    /\ \A i \in 1..Len(adapter'.line.body) : ~FromDictRaises(adapter'.line.body[i])
    /\ adapter'.cb # "bad"

StdioInboxes ==
    { <<>>, <<[MkEvent(0, "n2", "n1", 1) EXCEPT !.size_bytes = 64]>> }

NoStdioCall == [op |-> "none", raised |-> "none", target |-> 0, inbox |-> <<>>,
                result |-> <<>>, was_connected |-> FALSE, was_ready |-> FALSE]

\* DockerProtocolAdapter after __init__. pc is the position of the calling
\* thread inside a call that blocks (in _read_line or in process.wait),
\* reader the position of the stdout thread ("test": at the loop test,
\* "readline": inside readline), stdin_open whether the parent's end of the
\* child's stdin is open. History: ready (READY was received), returned (the
\* lines _read_line returned), sent (the inboxes send_advance wrote), log
\* (what send_shutdown did), calls and last_call.
StdioInit ==
    [node_id |-> "n1", connected |-> FALSE, pc |-> "idle", stdout_queue |-> <<>>,
     reader |-> "none", stdin_open |-> FALSE, ready |-> FALSE, returned |-> <<>>,
     sent |-> <<>>, log |-> <<>>, calls |-> 0, last_call |-> NoStdioCall]

\* The child of 'docker exec': absent before Popen, running, exited (not
\* waited for yet), reaped. stdin and pipe are the unread lines of its stdin
\* and stdout pipes, written every line it wrote to stdout, svc the
\* container-side adapter it runs, cb the callback of its last ADVANCE.
ChildInit ==
    [status |-> "absent", stdin |-> <<>>, pipe |-> <<>>, written |-> <<>>,
     svc |-> ContainerInit, cb |-> "empty"]

\* subprocess.Popen.poll() and wait(): an exited child is reaped
Reaped(child) == IF child.status = "exited" THEN [child EXCEPT !.status = "reaped"] ELSE child

StdioCalled(a, op, raised) ==
    [a EXCEPT !.calls = @ + 1, !.pc = "idle",
              !.last_call = [NoStdioCall EXCEPT !.op = op, !.raised = raised,
                                                !.was_connected = a.connected,
                                                !.was_ready = a.ready]]

InitStdio ==
    /\ config = DirectConfig
    /\ seed = 0
    /\ net = LatencyInit(config)
    /\ last_op = NoOp
    /\ offered = <<>>
    /\ n_routed = 0
    /\ net_hist = NoNetHist(config)
    /\ CoordinatorInit(1)
    /\ duration_us = 0
    /\ pc = "unused"
    /\ target_time_us = 0
    /\ idx = 0
    /\ all_events = <<>>
    /\ run_raised = NotRaised
    /\ hist = NoHist
    /\ lpc = "unused"
    /\ scenario = NoScenario
    /\ LauncherInit
    /\ adapter = StdioInit
    /\ node_state = ChildInit

\* connect(): returns when connected; RuntimeError unless 'docker inspect'
\* reports the container running; else Popen, the reader threads started,
\* connected = True
StdioConnect(container_running) ==
    /\ adapter.calls < MaxAdapterCalls
    /\ adapter.pc = "idle"
    /\ adapter.connected \/ node_state.status = "absent"
    /\ IF adapter.connected
       THEN /\ adapter' = StdioCalled(adapter, "connect", "none")
            /\ UNCHANGED node_state
       ELSE IF ~container_running
       THEN /\ adapter' = StdioCalled(adapter, "connect", "RuntimeError")
            /\ UNCHANGED node_state
       ELSE /\ adapter' = StdioCalled([adapter EXCEPT !.connected = TRUE,
                                                    !.reader = "test",
                                                    !.stdin_open = TRUE],
                                      "connect", "none")
            /\ node_state' = [node_state EXCEPT !.status = "running"]
    /\ UNCHANGED <<netVars, coordVars, launchVars>>

\* _write_line: BrokenPipeError, turned into RuntimeError, when the child
\* has exited
WriteFails == node_state.status # "running"

\* send_init: RuntimeError when not connected; INIT is written, then
\* _read_line is awaited
StdioSendInit ==
    /\ adapter.calls < MaxAdapterCalls
    /\ adapter.pc = "idle"
    /\ IF ~adapter.connected \/ WriteFails
       THEN /\ adapter' = StdioCalled(adapter, "send_init", "RuntimeError")
            /\ UNCHANGED node_state
       ELSE /\ adapter' = [StdioCalled(adapter, "send_init", "none") EXCEPT
                              !.pc = "init_read"]
            /\ node_state' = [node_state EXCEPT !.stdin = Append(@, Line("INIT"))]
    /\ UNCHANGED <<netVars, coordVars, launchVars>>

\* send_advance: RuntimeError when not connected; the ADVANCE line and the
\* events line are written
StdioSendAdvance(target, inbox) ==
    /\ adapter.calls < MaxAdapterCalls
    /\ adapter.pc = "idle"
    /\ IF ~adapter.connected \/ WriteFails
       THEN /\ adapter' = StdioCalled(adapter, "send_advance", "RuntimeError")
            /\ UNCHANGED node_state
       ELSE /\ adapter' = [StdioCalled(adapter, "send_advance", "none") EXCEPT
                              !.sent = Append(@, inbox),
                              !.last_call.target = target,
                              !.last_call.inbox = inbox]
            /\ node_state' = [node_state EXCEPT
                                !.stdin = @ \o <<AdvanceLine(target),
                                                 EventsLine(MapSeq(inbox, EncodeStdio))>>]
    /\ UNCHANGED <<netVars, coordVars, launchVars>>

\* wait_done: RuntimeError when not connected; then _read_line is awaited
\* for DONE
StdioWaitDone ==
    /\ adapter.calls < MaxAdapterCalls
    /\ adapter.pc = "idle"
    /\ IF ~adapter.connected
       THEN adapter' = StdioCalled(adapter, "wait_done", "RuntimeError")
       ELSE adapter' = [StdioCalled(adapter, "wait_done", "none") EXCEPT
                           !.pc = "done_read",
                           !.last_call.target = adapter.last_call.target,
                           !.last_call.inbox = adapter.last_call.inbox]
    /\ UNCHANGED <<netVars, coordVars, launchVars, node_state>>

Reading == {"init_read", "done_read", "events_read"}

\* _read_line returns the head of the queue to send_init or wait_done:
\* anything but READY, or but DONE, raises RuntimeError; json.loads of the
\* events line raises JSONDecodeError unless it is JSON
ReadLineReturns ==
    /\ adapter.pc \in Reading
    /\ adapter.stdout_queue # <<>>
    /\ LET line == Head(adapter.stdout_queue)
           got == [adapter EXCEPT !.stdout_queue = Tail(@),
                                  !.returned = Append(@, line)]
           Failed(e) == [got EXCEPT !.pc = "idle", !.last_call.raised = e]
       IN  adapter' =
              IF adapter.pc = "init_read"
              THEN IF line = Line("READY")
                   THEN [got EXCEPT !.pc = "idle", !.ready = TRUE]
                   ELSE Failed("RuntimeError")
              ELSE IF adapter.pc = "done_read"
              THEN IF line = Line("DONE")
                   THEN [got EXCEPT !.pc = "events_read"]
                   ELSE Failed("RuntimeError")
              ELSE IF line.kind = "EVENTS" /\ line.valid
                   THEN [got EXCEPT !.pc = "idle",
                                    !.last_call.result =
                                        [i \in 1..Len(line.body) |->
                                            DecodeStdio(adapter.node_id, line.body[i])]]
                   ELSE Failed("JSONDecodeError")
    /\ UNCHANGED <<netVars, coordVars, launchVars, node_state>>

\* The stdout thread cannot put a line: it has ended, or it is inside
\* readline on an empty pipe of a running child.
ReaderIdle ==
    \/ adapter.reader \in {"none", "exited"}
    \/ adapter.reader = "readline" /\ node_state.pipe = <<>>
                                   /\ node_state.status = "running"

\* _read_line: the queue stayed empty for the timeout; RuntimeError
\* (exited unexpectedly, or timeout) after process.poll()
ReadLineRaises ==
    /\ adapter.pc \in Reading
    /\ adapter.stdout_queue = <<>>
    /\ ReaderIdle
    /\ adapter' = [adapter EXCEPT !.pc = "idle", !.last_call.raised = "RuntimeError"]
    /\ node_state' = Reaped(node_state)
    /\ UNCHANGED <<netVars, coordVars, launchVars>>

\* _stdout_reader at 'while self.process and self.process.poll() is None'
ReaderTest ==
    /\ adapter.reader = "test"
    /\ adapter' = [adapter EXCEPT !.reader = IF node_state.status = "running"
                                             THEN "readline" ELSE "exited"]
    /\ node_state' = Reaped(node_state)
    /\ UNCHANGED <<netVars, coordVars, launchVars>>

\* _stdout_reader at readline(): a line is put into the queue; at end of
\* file the thread ends
ReaderReadline ==
    /\ adapter.reader = "readline"
    /\ IF node_state.pipe # <<>>
       THEN /\ adapter' = [adapter EXCEPT !.stdout_queue = Append(@, Head(node_state.pipe)),
                                          !.reader = "test"]
            /\ node_state' = [node_state EXCEPT !.pipe = Tail(@)]
       ELSE /\ node_state.status # "running"
            /\ adapter' = [adapter EXCEPT !.reader = "exited"]
            /\ UNCHANGED node_state
    /\ UNCHANGED <<netVars, coordVars, launchVars>>

\* the child reads one line from stdin and processes it, writing its
\* answers to stdout
ChildRead(cb) ==
    /\ node_state.status = "running"
    /\ node_state.svc.running
    /\ node_state.stdin # <<>>
    /\ node_state.svc.awaiting = NoneInt => cb = "empty"
    /\ LET svc == _process_command(node_state.svc, Head(node_state.stdin), cb)
           wrote == SubSeq(svc.out, Len(node_state.svc.out) + 1, Len(svc.out))
       IN  node_state' = [node_state EXCEPT
                            !.stdin = Tail(@),
                            !.svc = svc,
                            !.cb = IF node_state.svc.awaiting = NoneInt THEN @ ELSE cb,
                            !.pipe = @ \o wrote,
                            !.written = @ \o wrote]
    /\ UNCHANGED <<netVars, coordVars, launchVars, adapter>>

\* the child process ends: its loop was left, or it was stopped from
\* outside
ChildExits ==
    /\ node_state.status = "running"
    /\ node_state' = [node_state EXCEPT !.status = "exited"]
    /\ UNCHANGED <<netVars, coordVars, launchVars, adapter>>

\* send_shutdown: returns when not connected; writes SHUTDOWN (the
\* RuntimeError of _write_line passes through finally), then waits
StdioShutdown ==
    /\ adapter.calls < MaxAdapterCalls
    /\ adapter.pc = "idle"
    /\ IF ~adapter.connected
       THEN /\ adapter' = StdioCalled(adapter, "send_shutdown", "none")
            /\ UNCHANGED node_state
       ELSE IF WriteFails
       THEN /\ adapter' = [StdioCalled(adapter, "send_shutdown", "RuntimeError") EXCEPT
                              !.connected = FALSE]
            /\ UNCHANGED node_state
       ELSE /\ adapter' = [StdioCalled(adapter, "send_shutdown", "none") EXCEPT
                              !.pc = "wait_exit",
                              !.log = Append(@, "SHUTDOWN")]
            /\ node_state' = [node_state EXCEPT !.stdin = Append(@, Line("SHUTDOWN"))]
    /\ UNCHANGED <<netVars, coordVars, launchVars>>

\* process.wait returns inside send_shutdown: finally connected = False
ShutdownWaitReturns ==
    /\ adapter.pc \in {"wait_exit", "wait_terminated"}
    /\ node_state.status # "running"
    /\ adapter' = [adapter EXCEPT !.pc = "idle", !.connected = FALSE,
                                  !.log = Append(@, "waited")]
    /\ node_state' = Reaped(node_state)
    /\ UNCHANGED <<netVars, coordVars, launchVars>>

\* process.wait raises TimeoutExpired inside send_shutdown: terminate()
\* after the first wait; kill() after the second, then finally
ShutdownWaitTimesOut ==
    /\ adapter.pc \in {"wait_exit", "wait_terminated"}
    /\ node_state.status = "running"
    /\ IF adapter.pc = "wait_exit"
       THEN /\ adapter' = [adapter EXCEPT !.pc = "wait_terminated",
                                          !.log = Append(@, "terminate")]
            /\ UNCHANGED node_state
       ELSE /\ adapter' = [adapter EXCEPT !.pc = "idle", !.connected = FALSE,
                                          !.log = Append(@, "kill")]
            /\ node_state' = [node_state EXCEPT !.status = "exited"]
    /\ UNCHANGED <<netVars, coordVars, launchVars>>

NextStdio ==
    \/ \E container_running \in BOOLEAN : StdioConnect(container_running)
    \/ StdioSendInit
    \/ \E target \in 1..MaxTarget, inbox \in StdioInboxes : StdioSendAdvance(target, inbox)
    \/ StdioWaitDone
    \/ ReadLineReturns
    \/ ReadLineRaises
    \/ ReaderTest
    \/ ReaderReadline
    \/ \E cb \in Callbacks : ChildRead(cb)
    \/ ChildExits
    \/ StdioShutdown
    \/ ShutdownWaitReturns
    \/ ShutdownWaitTimesOut

SpecStdio == InitStdio /\ [][NextStdio]_vars

(***************************************************************************)
(* Properties of the stdio adapter                                         *)
(***************************************************************************)
\* C31: send_shutdown of the stdio adapter escalates in the order write
\* SHUTDOWN, wait, terminate, kill, each step taken only if the child is
\* still alive; whichever path is taken, when it returns stdin is closed,
\* the child has been reaped and the adapter is marked disconnected.
ShutdownReleasesChild ==
    (/\ adapter.last_call.op = "send_shutdown"
     /\ adapter.last_call.was_connected
     /\ adapter.pc = "idle")
        => /\ ~adapter.connected
           /\ ~adapter.stdin_open
           /\ node_state.status = "reaped"
           /\ adapter.log \in {<<"SHUTDOWN", "waited">>,
                               <<"SHUTDOWN", "terminate", "waited">>,
                               <<"SHUTDOWN", "terminate", "kill", "waited">>}

\* C33: send_advance on an adapter that is connected but has not received
\* READY raises RuntimeError instead of advancing the container.
AdvanceBeforeInitRejected ==
    /\ (adapter.last_call.op = "send_advance" /\ adapter.last_call.was_connected
            /\ ~adapter.last_call.was_ready)
           => adapter.last_call.raised = "RuntimeError"
    /\ ~adapter.ready => node_state.svc.calls = <<>>

\* C34: event serialisation round-trips: an event encoded for a node and
\* decoded back has the same time_us, type, src, dst, payload and
\* size_bytes, for the socket adapter and, up to the renaming of the
\* fields, for the stdio adapter (the events a container echoes come back
\* as they were sent).
EventRoundTrips ==
    /\ \A i \in 1..Len(adapter.sent) : \A j \in 1..Len(adapter.sent[i]) :
          DecodeSocket(EncodeSocket(adapter.sent[i][j])) =
              [raised |-> "none", event |-> adapter.sent[i][j]]
    /\ (/\ adapter.last_call.op = "wait_done"
        /\ adapter.pc = "idle"
        /\ adapter.last_call.raised = "none"
        /\ Len(adapter.sent) = 1
        /\ Len(node_state.svc.calls) = 1
        /\ node_state.cb = "echo")
           => adapter.last_call.result = adapter.sent[1]

\* the step is _read_line raising: a blocked call ends with no line
\* returned
ReadLineFails ==
    /\ adapter.pc \in Reading
    /\ adapter'.pc = "idle"
    /\ adapter'.returned = adapter.returned

\* C39: every line the child writes to stdout is returned by _read_line
\* once and in the order written, under every interleaving of the reader
\* thread, the calling thread and the child's exit; _read_line reports a
\* timeout or an unexpected exit only when no unread line exists.
LinesReturnedInOrder ==
    /\ [](adapter.returned \o adapter.stdout_queue \o node_state.pipe
              = node_state.written)
    /\ [][ReadLineFails => (adapter.stdout_queue = <<>> /\ node_state.pipe = <<>>)]_vars

(***************************************************************************)
(* RenodeNode._parse_uart_output called on successive pieces of a text     *)
(***************************************************************************)
\* The UART texts: what the firmware writes during two RunFor commands.
UartTexts == {a \o b : a, b \in UartChunks}

\* text is the UART text and fed the length of its part passed so far;
\* events are the events returned by the calls, in order; history: the
\* number of calls, the current_time of the last one, whether all calls had
\* the same current_time, whether a call's text ended inside an object.
UartFeed(text) ==
    [text |-> text, fed |-> 0, events |-> <<>>, calls |-> 0, last_time |-> 0,
     same_time |-> TRUE, split_inside |-> FALSE]

InitUart ==
    /\ config = DirectConfig
    /\ seed = 0
    /\ net = LatencyInit(config)
    /\ last_op = NoOp
    /\ offered = <<>>
    /\ n_routed = 0
    /\ net_hist = NoNetHist(config)
    /\ CoordinatorInit(1)
    /\ duration_us = 0
    /\ pc = "unused"
    /\ target_time_us = 0
    /\ idx = 0
    /\ all_events = <<>>
    /\ run_raised = NotRaised
    /\ hist = NoHist
    /\ lpc = "unused"
    /\ scenario = NoScenario
    /\ LauncherInit
    /\ adapter \in {UartFeed(text) : text \in UartTexts}
    /\ node_state = RenodeInit("n1")

\* _parse_uart_output(uart_text, current_time), uart_text being the next
\* len characters of the text
ParseNext(len, current_time) ==
    /\ adapter.calls < MaxLines
    /\ adapter.fed + len <= Len(adapter.text)
    /\ adapter.fed < Len(adapter.text)
    /\ LET uart_text == SubSeq(adapter.text, adapter.fed + 1, adapter.fed + len)
           r == ParseUartOutput(node_state, uart_text, current_time)
       IN  /\ node_state' = r.st
           /\ adapter' = [adapter EXCEPT
                            !.fed = @ + len,
                            !.events = @ \o r.events,
                            !.calls = @ + 1,
                            !.last_time = current_time,
                            !.same_time = @ /\ (adapter.calls = 0
                                                \/ current_time = adapter.last_time),
                            !.split_inside = @ \/ (len > 0 /\ uart_text[len].kind = "open")]
    /\ UNCHANGED <<netVars, coordVars, launchVars>>

NextUart ==
    \E len \in 0..(2 * Len(Json(SampleData)) + 2), current_time \in 1..MaxTarget :
        ParseNext(len, current_time)

SpecUart == InitUart /\ [][NextUart]_vars

(***************************************************************************)
(* Properties of the UART parsing                                          *)
(***************************************************************************)
\* one call on the whole text passed so far, with the current_time of the
\* last call
WholeText ==
    ParseUartOutput(RenodeInit("n1"), SubSeq(adapter.text, 1, adapter.fed),
                    adapter.last_time)

\* an event with the time stamp removed when the firmware gave none
Unstamped(e) == IF "time" \in DOMAIN e.payload THEN e ELSE [e EXCEPT !.time_us = 0]

\* C35 as stated: the events returned by successive _parse_uart_output
\* calls depend only on the concatenated text, not on where it is split
\* between the calls; text after the last newline stays buffered.
ChunkingIndependent ==
    /\ adapter.events = WholeText.events
    /\ node_state.uart_buffer = WholeText.st.uart_buffer

\* C35 amended: the events depend only on the concatenated text, except
\* that an event whose object has no time member carries the current_time
\* of the call in which its newline arrived; when all calls pass the same
\* current_time the events are the same for every split.  A line split
\* across calls gives one event once its newline arrives, text after the
\* last newline stays buffered, lines without a parseable object are
\* skipped.
ChunkingIndependentUpToStamp ==
    /\ MapSeq(adapter.events, Unstamped) = MapSeq(WholeText.events, Unstamped)
    /\ adapter.same_time => adapter.events = WholeText.events
    /\ node_state.uart_buffer = WholeText.st.uart_buffer
    /\ \A i \in 1..Len(node_state.uart_buffer) : node_state.uart_buffer[i] # Nl

\* a text with a skipped line was passed in several calls with different
\* times, one of them ending inside an object, and gave events
SplitTextParsed ==
    /\ adapter.fed = Len(adapter.text)
    /\ adapter.calls > 2
    /\ adapter.split_inside
    /\ ~adapter.same_time
    /\ adapter.events # <<>>
    /\ \E i \in 1..Len(adapter.text) : adapter.text[i] = Junk
    /\ node_state.uart_buffer # <<>>

(***************************************************************************)
(* Construction of a NetworkConfig (scenario.py) and of the latency model  *)
(* from it                                                                 *)
(***************************************************************************)
\* The values offered for a latency and for a loss rate, valid or not.
LatencyValues == (0 - 1)..1
LossValues == (0 - 1)..(LossScale + 1)

\* The links offered: none, one link, two links with different pairs, two
\* links with the same pair.
LinkLists ==
    {<<>>}
        \cup {<<NetworkLink("n1", "n2", l, r)>> : l \in LatencyValues, r \in LossValues}
        \cup {<<NetworkLink("n1", "n2", 1, 0), NetworkLink(s, "n2", MaxLatency, 0)>> :
                 s \in NodeIds}

\* The arguments offered to NetworkConfig(...).
ConfigArguments ==
    {[model |-> m, default_latency_us |-> l, default_loss_rate |-> r, links |-> ls] :
        m \in {"direct", "latency", "bogus"}, l \in LatencyValues, r \in LossValues,
        ls \in LinkLists}

\* arguments not used yet; built is what the construction gave: "none",
\* "accepted" or "ValueError", and links the dictionary of the latency model
\* built from an accepted configuration
Unbuilt(args) == [args |-> args, built |-> "none", model_links |-> {}]

InitConfig ==
    /\ config = DirectConfig
    /\ seed = 0
    /\ net = LatencyInit(config)
    /\ last_op = NoOp
    /\ offered = <<>>
    /\ n_routed = 0
    /\ net_hist = NoNetHist(config)
    /\ CoordinatorInit(1)
    /\ duration_us = 0
    /\ pc = "unused"
    /\ target_time_us = 0
    /\ idx = 0
    /\ all_events = <<>>
    /\ run_raised = NotRaised
    /\ hist = NoHist
    /\ lpc = "unused"
    /\ scenario = NoScenario
    /\ LauncherInit
    /\ adapter \in {Unbuilt(args) : args \in ConfigArguments}
    /\ node_state = NoNodes

\* NetworkConfig(**args): __post_init__ raises ValueError or returns
ConstructConfig ==
    /\ adapter.built = "none"
    /\ adapter' = [adapter EXCEPT !.built = IF ConfigValid(adapter.args)
                                            THEN "accepted" ELSE "ValueError"]
    /\ UNCHANGED <<netVars, coordVars, launchVars, node_state>>

\* LatencyNetworkModel(config, seed).__init__ fills self.links, a later link
\* replacing an earlier one with the same key
ConstructModel ==
    /\ adapter.built = "accepted"
    /\ adapter.args.model = "latency"
    /\ adapter' = [adapter EXCEPT
                     !.built = "modelled",
                     !.model_links =
                         {<<k, adapter.args.links[LinkIndex(adapter.args, k)].latency_us>> :
                             k \in ConfiguredKeys(adapter.args)}]
    /\ UNCHANGED <<netVars, coordVars, launchVars, node_state>>

NextConfig == ConstructConfig \/ ConstructModel

SpecConfig == InitConfig /\ [][NextConfig]_vars

\* C36: every NetworkConfig accepted at construction has model 'direct' or
\* 'latency', default_latency_us >= 0, default_loss_rate in [0,1] and, for
\* every link, latency_us >= 0, loss_rate in [0,1] and a (src,dst) pair no
\* other link has; any other configuration is rejected with an error.
AcceptedConfigsValid ==
    LET cfg == adapter.args
        Holds ==
            /\ cfg.model \in {"direct", "latency"}
            /\ cfg.default_latency_us >= 0
            /\ cfg.default_loss_rate \in LossRates
            /\ \A i \in 1..Len(cfg.links) :
                  /\ cfg.links[i].latency_us >= 0
                  /\ cfg.links[i].loss_rate \in LossRates
                  /\ \A j \in 1..Len(cfg.links) :
                        (cfg.links[j].src = cfg.links[i].src
                             /\ cfg.links[j].dst = cfg.links[i].dst) => j = i
    IN  /\ adapter.built \in {"accepted", "modelled"} => Holds
        /\ adapter.built = "ValueError" => ~Holds

(***************************************************************************)
(* One-quantum delay of cross-node events in Coordinator.run               *)
(***************************************************************************)
\* the quantum (1, 2, ...) whose wait_done returned event id: outboxes are
\* stamped with the target of their quantum
ProducedIn(id) == CHOOSE k \in 1..Len(hist.targets) : hist.targets[k] = hist.produced[id].time_us

\* the quantum of the i-th send_advance of the run
QuantumOfCall(i) == ((i - 1) \div NumNodes) + 1

\* C37: an event returned by wait_done in the quantum with target T is in
\* no inbox given to a send_advance with target <= T; with the direct model
\* and a registered destination it is given to the destination in exactly
\* the send_advance of the next quantum; an event of the last quantum of a
\* run is never given to any node.
OneQuantumDelay ==
    \A id \in Ids :
        /\ \A s \in HandedSlots(id) :
              /\ hist.handed[s[1]].target > hist.produced[id].time_us
              /\ QuantumOfCall(s[1]) > ProducedIn(id)
        /\ (config.model = "direct" /\ hist.produced[id].dst \in NodeIds) =>
              /\ \A s \in HandedSlots(id) :
                    /\ QuantumOfCall(s[1]) = ProducedIn(id) + 1
                    /\ hist.handed[s[1]].node = hist.produced[id].dst
              /\ \A i \in 1..Len(hist.handed) :
                    (QuantumOfCall(i) = ProducedIn(id) + 1
                         /\ hist.handed[i].node = hist.produced[id].dst) =>
                        \E j \in 1..Len(hist.handed[i].inbox) :
                            hist.handed[i].inbox[j].payload = id
        /\ (pc \in {"shutdown", "returned"} /\ hist.produced[id].time_us = duration_us) =>
              HandedCount(id) = 0

\* a direct run has returned in which one event was handed over in the
\* quantum after its own and another was produced in the last quantum
DelayedAndLeftOver ==
    /\ pc = "returned"
    /\ config.model = "direct"
    /\ \E id \in Ids : /\ HandedCount(id) = 1
                       /\ hist.produced[id].dst \in NodeIds
    /\ \E id \in Ids : /\ hist.produced[id].time_us = duration_us
                       /\ hist.produced[id].dst \in NodeIds
                       /\ InboxCount(id) = 1

(***************************************************************************)
(* Delivery of delayed events by Coordinator.run with the latency model    *)
(***************************************************************************)
\* delivery_time_us of event id under the configuration of the run (the
\* runs configure no links: the default latency applies)
DeliveryTime(id) == hist.produced[id].time_us + config.default_latency_us

\* the quantum whose advance_to is the first to reach time t >= 1
QuantumReaching(t) == Ceil(t, time_quantum_us)

\* event id passed the loss draw of route_message
PassedLoss(id) == \E i \in 1..Len(offered) : offered[i].event.payload = id

ShutdownBegun == \E n \in NodeIds : adapters[n].shutdowns >= 1

\* the send_shutdown calls made so far went to the first k adapters in
\* registration order, once each
ShutdownsInOrder(k) ==
    \A i \in 1..NumNodes : adapters[NodeOrder[i]].shutdowns = IF i <= k THEN 1 ELSE 0

\* C40: in a run that completes, send_shutdown is called exactly once on
\* every registered adapter, in registration order and only after the clock
\* update of the last quantum; after the first send_shutdown no send_advance
\* and no wait_done is made on any adapter.
ShutdownLastAndOnce ==
    /\ [](/\ pc = "returned" => ShutdownsInOrder(NumNodes)
          /\ pc = "shutdown" => ShutdownsInOrder(idx - 1)
          /\ pc \in {"loop", "fanout", "join", "route"} => ShutdownsInOrder(0)
          /\ ShutdownBegun => current_time_us = duration_us)
    /\ [][ShutdownBegun =>
             /\ hist'.handed = hist.handed
             /\ hist'.produced = hist.produced
             /\ \A n \in NodeIds :
                   /\ adapters'[n].last_advance = adapters[n].last_advance
                   /\ adapters'[n].last_done = adapters[n].last_done
                   /\ adapters'[n].shutdowns \in {adapters[n].shutdowns, 1}]_vars

\* a run of two quanta or more has returned, every adapter shut down
ShutDownAfterLastQuantum ==
    /\ pc = "returned"
    /\ Len(hist.targets) >= 2
    /\ current_time_us = duration_us
    /\ ShutdownsInOrder(NumNodes)
    /\ \A n \in NodeIds : adapters[n].last_done = duration_us

====
